---- MODULE Spec2Model ----
(***************************************************************************)
(* Model of the ecoNEXT integration core.                                  *)
(*                                                                         *)
(* Part 1: the parameter store.  EconextCoordinator / EconetNextCoordinator*)
(* keep `data`, an id-keyed snapshot that a refresh replaces wholesale and *)
(* that async_set_param patches after a successful gateway write.          *)
(* EconextApi turns the gateway's name-keyed reply into the id-keyed map   *)
(* and keeps the reverse table _index_to_name used by writes.              *)
(*                                                                         *)
(* Part 2: the circuit climate entity (CircuitClimate of econext), which   *)
(* reads WorkState and the settings bitmap from the store and writes them  *)
(* through the coordinator.                                                *)
(***************************************************************************)
EXTENDS Integers, Sequences, FiniteSets, Bags, TLC

\* ------------------------------------------------------------------ bounds
\* number of async_set_param calls that may be awaiting the gateway at once
MaxCalls == 1
\* register values range over 0..MaxVal
MaxVal == 1

Values == 0..MaxVal
\* Python's None, for a dict, a parameter, a value and an index
NoneV == [none |-> TRUE]
NoValue == -1
NoIndex == -1
\* a register the controller does not publish at the moment
Absent == -1
ValueError == -1

\* ------------------------------------------------------- gateway registry
\* What the gateway publishes, in reply order.  Entry 1 is keyed by its
\* index (the layout of tests/conftest.py gateway_api_response), entry 2 by
\* a symbolic name (the layout of the async_fetch_all_params docstring),
\* entry 3 carries no index and is skipped by the client.
Registry ==
  << [name |-> "1",         index |-> 1,       min |-> 0, max |-> 1, writable |-> TRUE,  type |-> 2, unit |-> 1],
     [name |-> "dhwTarget", index |-> 2,       min |-> 0, max |-> 0, writable |-> TRUE,  type |-> 2, unit |-> 0],
     [name |-> "timestamp", index |-> NoIndex, min |-> 0, max |-> 0, writable |-> FALSE, type |-> 4, unit |-> 0] >>

\* registers whose value varies on the device
DeviceNames == {"1", "dhwTarget"}
\* registers the controller may stop and start publishing
Optional == {"1"}

\* ids an entity may pass to the store: two published ones, one the gateway
\* never publishes, one that is not a number
CallIds == {"1", "2", "7", "x"}

Coordinators == {"econext", "econet_next"}

\* str(index) for the indexes of the registry and of CallIds
Str(i) == CASE i = 1 -> "1" [] i = 2 -> "2" [] i = 7 -> "7" [] OTHER -> "?"
\* int(param_id): the integer, or ValueError for a non-numeric string
ToInt(s) == CASE s = "1" -> 1 [] s = "2" -> 2 [] s = "7" -> 7 [] OTHER -> ValueError

VARIABLES
  coord,          \* which coordinator class is instantiated
  device,         \* ground truth on the controller: name -> value | Absent
  data,           \* DataUpdateCoordinator.data: NoneV | (id -> parameter)
  index_to_name,  \* EconextApi._index_to_name: id -> gateway name
  alarms,         \* EconextCoordinator._alarms
  rpc,            \* position of the refresh task
  reply,          \* the gateway's answer to the refresh's GET, in flight
  params,         \* local `params` of _async_update_data while it awaits
  calls,          \* bag of the async_set_param calls awaiting the gateway
  last,           \* what the most recent step returned to its caller
  since,          \* history: what happened around the refresh in flight
  cache,          \* the circuit's parameters as the coordinator's data holds them
  last_preset,    \* CircuitClimate._last_preset
  pending,        \* the climate service call awaiting the coordinator, if any
  done,           \* the climate service call that has just ended, if any
  variant,        \* which CircuitClimate: "A" (src/climate.py) or "B" (econext)
  shown,          \* what the entity's state properties have just returned, if read
  before_off      \* history: the circuit as set_hvac_mode(OFF) found it

svars == << coord, device, data, index_to_name, alarms, rpc, reply, params, calls, last, since >>
cvars == << cache, last_preset, pending, done, variant, shown, before_off >>
vars == << svars, cvars >>

NoEvent == [op |-> "none", id |-> "", value |-> NoValue, result |-> ""]
Event(op, id, value, result) == [op |-> op, id |-> id, value |-> value, result |-> result]

\* ------------------------------------------------------------ EconextApi
\* the JSON object the gateway replies with: entries of the registered
\* parameters that are present, in registry order
RECURSIVE GatewayReply(_, _)
GatewayReply(dev, i) ==
  IF i > Len(Registry) THEN << >>
  ELSE LET e == Registry[i]
           rest == GatewayReply(dev, i + 1)
       IN IF e.name \in DeviceNames
          THEN IF dev[e.name] = Absent THEN rest
               ELSE << e @@ [value |-> dev[e.name]] >> \o rest
          ELSE << e @@ [value |-> 0] >> \o rest

\* Python's d[k] = v
Put(d, k, v) == [x \in DOMAIN d \cup {k} |-> IF x = k THEN v ELSE d[x]]
Empty == [x \in {} |-> NoValue]

\* a transform that takes the value from the wrong gateway field
TransformParam_MinAsValue(name, param_data) ==
  [value |-> param_data.min, name |-> name, minv |-> param_data.min,
   maxv |-> param_data.max, writable |-> param_data.writable,
   type |-> param_data.type, unit |-> param_data.unit]

\* the gateway's fields mapped to the fields the integration uses
TransformParam(name, param_data) ==
  [value |-> param_data.value, name |-> name, minv |-> param_data.min,
   maxv |-> param_data.max, writable |-> param_data.writable,
   type |-> param_data.type, unit |-> param_data.unit]

\* the loop of async_fetch_all_params over the items of the reply
RECURSIVE FetchLoop(_, _, _)
FetchLoop(gateway_params, i, acc) ==
  IF i > Len(gateway_params) THEN acc
  ELSE LET pd == gateway_params[i]
       IN IF pd.index = NoIndex THEN FetchLoop(gateway_params, i + 1, acc)
          ELSE LET index_str == Str(pd.index)
               IN FetchLoop(gateway_params, i + 1,
                     [params |-> Put(acc.params, index_str, TransformParam(pd.name, pd)),
                      index_to_name |-> Put(acc.index_to_name, index_str, pd.name)])

async_fetch_all_params(gateway_params) ==
  FetchLoop(gateway_params, 1, [params |-> Empty, index_to_name |-> Empty])

\* ------------------------------------------------------------ coordinator
get_param(d, param_id) ==
  IF d = NoneV THEN NoneV
  ELSE IF param_id \in DOMAIN d THEN d[param_id] ELSE NoneV

get_param_value(d, param_id) ==
  LET param == get_param(d, param_id)
  IN IF param = NoneV THEN NoValue ELSE param.value

\* a patch that is never applied
PatchValue_Skip(d, param_key, value) == d

\* a patch that stores the id whether the snapshot has it or not
PatchValue_Insert(d, param_key, value) ==
  IF d # NoneV
  THEN Put(d, param_key,
           IF param_key \in DOMAIN d THEN [d[param_key] EXCEPT !.value = value]
           ELSE [value |-> value])
  ELSE d

\* a patch that replaces the parameter by a fresh one holding value and name
PatchValue_Fresh(d, param_key, value) ==
  IF d # NoneV /\ param_key \in DOMAIN d
  THEN [d EXCEPT ![param_key] = [value |-> value, name |-> @.name]]
  ELSE d

\* the optimistic patch of async_set_param
PatchValue(d, param_key, value) ==
  IF d # NoneV /\ param_key \in DOMAIN d
  THEN [d EXCEPT ![param_key] = [@ EXCEPT !.value = value]]
  ELSE d

\* a patch applied whatever the outcome of the write
ResumeSetParam_Eager(outcome, d, param_key, value) == PatchValue(d, param_key, value)

\* async_set_param after its await: the API returned True, or raised and
\* the exception leaves async_set_param before the patch
ResumeSetParam(outcome, d, param_key, value) ==
  IF outcome = "True" THEN PatchValue(d, param_key, value) ELSE d

\* a refresh that keeps the cached value of every id it already has
ReplaceData_KeepValues(old, new) ==
  IF old = NoneV THEN new
  ELSE [x \in DOMAIN new |->
          IF x \in DOMAIN old THEN [new[x] EXCEPT !.value = old[x].value] ELSE new[x]]

\* a refresh that updates the old map with the new one (dict.update)
ReplaceData_Merge(old, new) ==
  IF old = NoneV THEN new
  ELSE [x \in DOMAIN old \cup DOMAIN new |-> IF x \in DOMAIN new THEN new[x] ELSE old[x]]

\* DataUpdateCoordinator stores what _async_update_data returned
ReplaceData(old, new) == new

\* a refresh that drops the data when the fetch fails
StoreRefresh_DropOnFailure(outcome, old, new) == new

\* the end of a refresh: the map returned replaces the data, UpdateFailed
\* leaves the data as it is
StoreRefresh(outcome, old, new) ==
  IF outcome = "ok" THEN ReplaceData(old, new) ELSE old

KeysOf(d) == IF d = NoneV THEN {} ELSE DOMAIN d

\* the value the controller holds for the register published under id
DeviceValue(dev, id) ==
  LET es == {i \in 1..Len(Registry) :
               Registry[i].index # NoIndex /\ Str(Registry[i].index) = id}
  IN IF es = {} THEN Absent
     ELSE LET i == CHOOSE j \in es : TRUE
          IN IF Registry[i].name \in DeviceNames THEN dev[Registry[i].name] ELSE 0

\* History variable `since`: it records, it never decides what the store
\* does.  Every specification keeps `ids`; SpecPatch also keeps `patched`,
\* SpecTruth also keeps `fresh` and `settled`.
NoHistory(keep) ==
  [keep    |-> keep,
   ids     |-> {},      \* the ids of the last refresh that completed
   patched |-> Empty,   \* id -> value patched since the gateway served the refresh's GET
   fresh   |-> FALSE,   \* the controller has not changed since it served that GET
   settled |-> Empty]   \* id -> value written successfully while no refresh was in flight

\* the history kept is that of one refresh cycle: it starts afresh with the
\* first step after a refresh has completed
Cur == IF last.op = "refresh" /\ last.result = "ok"
       THEN [NoHistory(since.keep) EXCEPT !.ids = since.ids] ELSE since
Track(h) ==
  CASE since.keep = "patched" -> [since EXCEPT !.patched = h.patched]
    [] since.keep = "truth"   -> [since EXCEPT !.fresh = h.fresh, !.settled = h.settled]
    [] OTHER                  -> since

\* --------------------------------------------------------------- Init
\* no climate service call: the record a call leaves when there is none;
\* prior_preset is history, the preset remembered when set_preset_mode was
\* called, recorded where before_off is kept
NoCall == [op |-> "none", arg |-> "", at |-> "", cur |-> NoValue,
           checked |-> NoValue, log |-> << >>, result |-> "",
           bit |-> NoValue, invert |-> FALSE,
           value |-> NoValue, fmin |-> Absent, fmax |-> Absent,
           prior_preset |-> ""]
\* no read of the entity's state properties
NoShown == [hvac_mode |-> "", preset_mode |-> "", hvac_action |-> "",
            target_temperature |-> NoValue,
            is_on |-> "", bit |-> NoValue, invert |-> FALSE,
            min_value |-> NoValue, max_value |-> NoValue,
            fmin |-> Absent, fmax |-> Absent,
            text |-> "", slot |-> "", hvac_modes |-> {}]
\* the parameters of a circuit, none of them reported
NoParams == [settings |-> Absent, work_state |-> Absent, eco |-> Absent,
             comfort |-> Absent, setpoint |-> Absent, thermostat |-> Absent,
             pump |-> Absent, hdw |-> Absent, hp_mode |-> Absent,
             number |-> Absent, minv |-> Absent, maxv |-> Absent,
             minvDP |-> Absent, maxvDP |-> Absent,
             ref1 |-> Absent, ref2 |-> Absent,
             am |-> Absent, pm |-> Absent,
             operating_mode |-> Absent, cooling_support |-> Absent]
\* History variable `before_off`: it records, it never decides what the
\* circuit does. A specification that keeps it starts at NothingBefore;
\* the others leave it at Untracked. It holds the WorkState and the
\* remembered preset the circuit had when the last set_hvac_mode(OFF) write
\* returned True, as long as only reads and set_hvac_mode calls followed.
Untracked == [keep |-> FALSE, work_state |-> NoValue, remembered |-> ""]
NothingBefore == [keep |-> TRUE, work_state |-> NoValue, remembered |-> ""]
\* the store specifications have no circuit entity
CircuitParked ==
  /\ cache = NoParams
  /\ last_preset = "None"
  /\ pending = NoCall
  /\ done = NoCall
  /\ variant = "B"
  /\ shown = NoShown
  /\ before_off = Untracked

InitStore ==
  /\ coord \in Coordinators
  /\ device \in [DeviceNames -> Values]
  /\ data = NoneV
  /\ index_to_name = Empty
  /\ alarms = << >>
  /\ rpc = "idle"
  /\ reply = << >>
  /\ params = Empty
  /\ calls = EmptyBag
  /\ last = NoEvent

Init == InitStore /\ since = NoHistory("none") /\ CircuitParked

\* --------------------------------------------------------------- refresh
\* the update timer fires: _async_update_data issues its GET and awaits
RefreshBegin ==
  /\ rpc = "idle"
  /\ rpc' = "get"
  /\ since' = Track([Cur EXCEPT !.patched = Empty, !.fresh = FALSE])
  /\ last' = NoEvent
  /\ UNCHANGED << cvars, coord, device, data, index_to_name, alarms, reply, params, calls >>

\* EconetNextCoordinator: the gateway serves the GET with status 200; the
\* reply carries the registers as they are now
GatewayServesGet ==
  /\ coord = "econet_next"
  /\ rpc = "get"
  /\ rpc' = "reply"
  /\ reply' = GatewayReply(device, 1)
  /\ since' = Track([since EXCEPT !.patched = Empty, !.fresh = TRUE])
  /\ last' = NoEvent
  /\ UNCHANGED << cvars, coord, device, data, index_to_name, alarms, params, calls >>

\* EconetNextCoordinator: the reply arrives, async_fetch_all_params builds
\* the id-keyed map and replaces _index_to_name, _async_update_data returns
\* the map and the base class stores it
FetchParamsReturn ==
  /\ coord = "econet_next"
  /\ rpc = "reply"
  /\ LET r == async_fetch_all_params(reply)
     IN /\ index_to_name' = r.index_to_name
        /\ data' = StoreRefresh("ok", data, r.params)
  /\ rpc' = "idle"
  /\ reply' = << >>
  /\ last' = Event("refresh", "", NoValue, "ok")
  /\ since' = [since EXCEPT !.ids = DOMAIN async_fetch_all_params(reply).params]
  /\ UNCHANGED << cvars, coord, device, alarms, params, calls >>

\* EconextCoordinator: the gateway answers 200, async_fetch_all_params
\* builds the id-keyed map and replaces _index_to_name; the coordinator
\* keeps the map in `params` and goes on to fetch the alarms
FetchParamsOk ==
  /\ coord = "econext"
  /\ rpc = "get"
  /\ LET r == async_fetch_all_params(GatewayReply(device, 1))
     IN /\ index_to_name' = r.index_to_name
        /\ params' = r.params
  /\ rpc' = "alarms"
  /\ since' = Track([since EXCEPT !.patched = Empty, !.fresh = TRUE])
  /\ last' = NoEvent
  /\ UNCHANGED << cvars, coord, device, data, alarms, reply, calls >>

FetchErrors == {"EconextApiError", "EconextConnectionError"}

\* status != 200 (EconextApiError) or aiohttp.ClientError
\* (EconextConnectionError): _async_update_data raises UpdateFailed and the
\* base class keeps the data it has
FetchParamsFail ==
  /\ rpc = "get"
  /\ \E err \in FetchErrors : last' = Event("refresh", err, NoValue, "UpdateFailed")
  /\ data' = StoreRefresh("UpdateFailed", data, Empty)
  /\ rpc' = "idle"
  /\ UNCHANGED << cvars, coord, device, index_to_name, alarms, reply, params, calls, since >>

\* what the gateway's alarm endpoint answers
AlarmLists == { << [code |-> 1, to_date |-> "None"] >> }

\* the alarm fetch returns: _alarms is replaced and params is returned
FetchAlarmsOk ==
  /\ coord = "econext"
  /\ rpc = "alarms"
  /\ \E a \in AlarmLists : alarms' = a
  /\ data' = StoreRefresh("ok", data, params)
  /\ params' = Empty
  /\ rpc' = "idle"
  /\ last' = Event("refresh", "", NoValue, "ok")
  /\ since' = [since EXCEPT !.ids = DOMAIN params]
  /\ UNCHANGED << cvars, coord, device, index_to_name, reply, calls >>

\* the alarm fetch fails: non-fatal, previous alarms kept, params returned
FetchAlarmsFail ==
  /\ coord = "econext"
  /\ rpc = "alarms"
  /\ data' = StoreRefresh("ok", data, params)
  /\ params' = Empty
  /\ rpc' = "idle"
  /\ last' = Event("refresh", "alarms", NoValue, "ok")
  /\ since' = [since EXCEPT !.ids = DOMAIN params]
  /\ UNCHANGED << cvars, coord, device, index_to_name, alarms, reply, calls >>

\* ------------------------------------------------------- async_set_param
\* EconextCoordinator.async_set_param up to its await: the lookup of the
\* parameter and of its name, then EconextApi.async_set_param(name, value)
\* up to the POST.  The result is "post" with the gateway name to write,
\* or the exception raised before any request is made.
PrepareEconext(d, i2n, param_id) ==
  LET param == get_param(d, param_id)
  IN IF param = NoneV THEN [pc |-> "EconextApiError", why |-> "Unknown parameter"]
     ELSE IF param.name = "" THEN [pc |-> "EconextApiError", why |-> "no name"]
     ELSE IF param.name \notin DOMAIN i2n
          THEN [pc |-> "EconextApiError", why |-> "Unknown parameter index"]
          ELSE [pc |-> "post", param_name |-> i2n[param.name]]

\* a write path that POSTs without looking the index up
PrepareEconetNext_NoLookup(i2n, param_id) ==
  LET n == ToInt(param_id)
  IN IF n = ValueError THEN [pc |-> "ValueError", why |-> "int()"]
     ELSE [pc |-> "post",
           param_name |-> IF Str(n) \in DOMAIN i2n THEN i2n[Str(n)] ELSE Str(n)]

\* EconetNextCoordinator.async_set_param up to its await: int(param_id),
\* then the API's lookup of str(index) in _index_to_name
PrepareEconetNext(i2n, param_id) ==
  LET n == ToInt(param_id)
  IN IF n = ValueError THEN [pc |-> "ValueError", why |-> "int()"]
     ELSE IF Str(n) \notin DOMAIN i2n
          THEN [pc |-> "EconextApiError", why |-> "Unknown parameter index"]
          ELSE [pc |-> "post", param_name |-> i2n[Str(n)]]

Prepare(param_id) ==
  IF coord = "econext" THEN PrepareEconext(data, index_to_name, param_id)
  ELSE PrepareEconetNext(index_to_name, param_id)

\* an entity calls async_set_param(param_id, value); the call either raises
\* before any request or issues the POST and awaits
SetParamCall(param_id, value) ==
  /\ BagCardinality(calls) < MaxCalls
  /\ LET r == Prepare(param_id)
     IN IF r.pc = "post"
        THEN /\ calls' = calls (+) SetToBag({[id |-> param_id, value |-> value,
                                             param_name |-> r.param_name]})
             /\ last' = NoEvent
        ELSE /\ calls' = calls
             /\ last' = Event("set", param_id, NoValue, r.pc)
  /\ since' = Track(Cur)
  /\ UNCHANGED << cvars, coord, device, data, index_to_name, alarms, rpc, reply, params >>

\* the gateway answers 200 (the controller stored `stored`, the value
\* written or what the firmware made of it); the API returns True and the
\* coordinator patches the cached value
SetParamOk(call) ==
  /\ BagIn(call, calls)
  /\ call.param_name \in DeviceNames
  /\ device[call.param_name] # Absent
  /\ \E stored \in Values :
        device' = [device EXCEPT ![call.param_name] = stored]
  /\ data' = ResumeSetParam("True", data, call.id, call.value)
  /\ calls' = calls (-) SetToBag({call})
  /\ last' = Event("set", call.id, call.value, "True")
  /\ since' = Track([Cur EXCEPT
                 !.patched = IF rpc \in {"reply", "alarms"} /\ call.id \in KeysOf(data)
                             THEN Put(@, call.id, call.value) ELSE @,
                 !.fresh = @ /\ device' = device,
                 !.settled = IF rpc = "idle" THEN Put(@, call.id, call.value) ELSE @])
  /\ UNCHANGED << cvars, coord, index_to_name, alarms, rpc, reply, params >>

\* the gateway answers with another status (EconextApiError, nothing
\* stored) or the connection breaks (EconextConnectionError, the request
\* may or may not have been carried out): the exception reaches the caller
SetParamFail(call) ==
  /\ BagIn(call, calls)
  /\ \/ /\ last' = Event("set", call.id, NoValue, "EconextApiError")
        /\ device' = device
     \/ /\ last' = Event("set", call.id, NoValue, "EconextConnectionError")
        /\ \/ device' = device
           \/ /\ call.param_name \in DeviceNames
              /\ device[call.param_name] # Absent
              /\ device' = [device EXCEPT ![call.param_name] = call.value]
  /\ data' = ResumeSetParam(last'.result, data, call.id, call.value)
  /\ calls' = calls (-) SetToBag({call})
  /\ since' = Track([Cur EXCEPT !.fresh = @ /\ device' = device])
  /\ UNCHANGED << cvars, coord, index_to_name, alarms, rpc, reply, params >>

\* ------------------------------------------------------------ controller
\* the controller changes a register on its own, starts or stops
\* publishing it
DeviceChange(n, v) ==
  /\ device[n] # v
  /\ v = Absent => n \in Optional
  /\ device' = [device EXCEPT ![n] = v]
  /\ last' = NoEvent
  /\ since' = Track([Cur EXCEPT !.fresh = FALSE])
  /\ UNCHANGED << cvars, coord, data, index_to_name, alarms, rpc, reply, params, calls >>

\* the steps of a store whose coordinator is an EconextCoordinator
NextEconext ==
  \/ RefreshBegin
  \/ FetchParamsOk
  \/ FetchParamsFail
  \/ FetchAlarmsOk
  \/ FetchAlarmsFail
  \/ \E param_id \in CallIds, value \in Values : SetParamCall(param_id, value)
  \/ \E call \in BagToSet(calls) : SetParamOk(call)
  \/ \E call \in BagToSet(calls) : SetParamFail(call)
  \/ \E n \in DeviceNames, v \in Values \cup {Absent} : DeviceChange(n, v)

Next ==
  \/ NextEconext
  \/ GatewayServesGet
  \/ FetchParamsReturn

\* the store under either coordinator
Spec == Init /\ [][Next]_vars

\* the EconextCoordinator store with the history of the refresh cycle
InitPatch == InitStore /\ coord = "econext" /\ since = NoHistory("patched") /\ CircuitParked
SpecPatch == InitPatch /\ [][NextEconext]_vars

InitTruth == InitStore /\ coord = "econext" /\ since = NoHistory("truth") /\ CircuitParked
SpecTruth == InitTruth /\ [][NextEconext]_vars

TypeOK ==
  /\ coord \in Coordinators
  /\ rpc \in {"idle", "get", "reply", "alarms"}
  /\ KeysOf(data) \subseteq {"1", "2"}
  /\ BagCardinality(calls) <= MaxCalls

\* ----------------------------------------------------------------------
\* Steps, told apart by what they do to the variables
\* ----------------------------------------------------------------------
\* an async_set_param call that was awaiting the gateway returns or raises
SetReturns == BagCardinality(calls') < BagCardinality(calls)
\* an async_set_param call issues its POST
SetPosts == BagCardinality(calls') > BagCardinality(calls)
\* the calls that issued their POST in this step
Posted == {c \in BagToSet(calls') : CopiesIn(c, calls') > CopiesIn(c, calls)}
\* a refresh ends, with a map or with UpdateFailed
RefreshEnds == rpc # "idle" /\ rpc' = "idle"
RefreshCompleted == last.op = "refresh" /\ last.result = "ok"
WriteErrors == {"EconextApiError", "EconextConnectionError"}

\* ----------------------------------------------------------------------
\* C1: when async_set_param(id, v) returns True and id is in the snapshot
\* that is live at that moment, the read that follows at once, before any
\* other step, gives v.
\* ----------------------------------------------------------------------
C1_ReadAfterWrite ==
  (last.op = "set" /\ last.result = "True" /\ last.id \in KeysOf(data))
    => get_param_value(data, last.id) = last.value

C1_Witness ==
  /\ last.op = "set" /\ last.result = "True"
  /\ last.id \in KeysOf(data)
  /\ get_param_value(data, last.id) = last.value
  /\ DeviceValue(device, last.id) # last.value

\* ----------------------------------------------------------------------
\* C2: when the POST of async_set_param fails, the call ends with a write
\* error (EconextApiError or EconextConnectionError) and the step leaves the
\* whole cache as it was.
\* ----------------------------------------------------------------------
C2_FailedWriteKeepsCache ==
  [][(SetReturns /\ last'.result # "True")
       => (data' = data /\ last'.op = "set" /\ last'.result \in WriteErrors)]_vars

C2_Witness ==
  /\ last.op = "set" /\ last.result = "EconextConnectionError"
  /\ last.id \in KeysOf(data)
  /\ DeviceValue(device, last.id) # get_param_value(data, last.id)

\* ----------------------------------------------------------------------
\* C3: a refresh that ends with the map it fetched before a write was
\* patched into the cache overwrites the patch: every id patched since the
\* fetch then holds the value of the fetched map, whatever was patched.
\* ----------------------------------------------------------------------
C3_StaleRefreshOverwritesPatch ==
  [][(RefreshEnds /\ last'.result = "ok")
       => \A id \in DOMAIN since.patched :
            get_param_value(data', id) = get_param_value(params, id)]_vars

C3_Witness ==
  /\ RefreshCompleted
  /\ \E id \in DOMAIN since.patched :
        /\ id \in KeysOf(data)
        /\ get_param_value(data, id) # since.patched[id]

\* ----------------------------------------------------------------------
\* C4: the ids of the live snapshot are always those of the last refresh
\* that completed; no step of async_set_param adds or removes one.  (The
\* snapshot is a map, so an id has one parameter.)
\* ----------------------------------------------------------------------
C4_IdsAreThoseOfLastRefresh ==
  /\ KeysOf(data) = since.ids
  /\ data = NoneV => since.ids = {}

C4_Witness ==
  /\ last.op = "set" /\ last.result = "True"
  /\ data # NoneV
  /\ last.id \notin KeysOf(data)

\* ----------------------------------------------------------------------
\* C5: when the parameter fetch of a refresh fails, the refresh ends with
\* UpdateFailed and the step leaves the cache as it was.
\* ----------------------------------------------------------------------
C5_FailedRefreshKeepsCache ==
  [][(RefreshEnds /\ rpc = "get")
       => (last'.op = "refresh" /\ last'.result = "UpdateFailed" /\ data' = data)]_vars

C5_Witness ==
  /\ last.op = "refresh" /\ last.result = "UpdateFailed"
  /\ data # NoneV
  /\ \E id \in KeysOf(data) : DeviceValue(device, id) # get_param_value(data, id)

\* ----------------------------------------------------------------------
\* C6: async_set_param on an id that is not in the current snapshot issues
\* no POST and ends at once with an exception.
\* ----------------------------------------------------------------------
C6_UnknownIdFailsFast ==
  [][/\ \A c \in Posted : c.id \in KeysOf(data)
     /\ (calls' = calls /\ last'.op = "set" /\ last'.id \notin KeysOf(data))
          => last'.result \in {"EconextApiError", "ValueError"}]_vars

C6_Witness ==
  /\ last.op = "set" /\ last.result = "EconextApiError"
  /\ data # NoneV
  /\ last.id \notin KeysOf(data)
  /\ calls = EmptyBag

\* ----------------------------------------------------------------------
\* C7: a write that succeeds changes the value of its id and nothing else:
\* the other ids keep their parameters and the id keeps its other fields.
\* ----------------------------------------------------------------------
C7_WriteFrame ==
  [][(SetReturns /\ last'.result = "True")
       => /\ KeysOf(data') = KeysOf(data)
          /\ (data = NoneV) = (data' = NoneV)
          /\ \A k \in KeysOf(data) :
               IF k = last'.id
               THEN data'[k] = [data[k] EXCEPT !.value = last'.value]
               ELSE data'[k] = data[k]]_vars

C7_Witness ==
  /\ last.op = "set" /\ last.result = "True"
  /\ KeysOf(data) = {"1", "2"}
  /\ data[last.id].value = last.value
  /\ \E k \in KeysOf(data) : k # last.id /\ data[k].value # last.value

\* ----------------------------------------------------------------------
\* C8: when a refresh completes whose fetch began after a write on id had
\* succeeded, and the controller has not changed since it answered that
\* fetch, the cached value of id is the controller's value (and id is
\* cached exactly if the controller publishes it).
\* ----------------------------------------------------------------------
C8_RefreshReconfirmsTruth ==
  (RefreshCompleted /\ since.fresh)
    => \A id \in DOMAIN since.settled :
         get_param_value(data, id) = DeviceValue(device, id)

C8_Witness ==
  /\ RefreshCompleted /\ since.fresh
  /\ \E id \in DOMAIN since.settled :
        /\ id \in KeysOf(data)
        /\ get_param_value(data, id) # since.settled[id]

\* ----------------------------------------------------------------------
\* C9: when a refresh completes, the cache is exactly the map the API built
\* from the gateway's reply: its ids with the reply's values, and no other
\* id can be read.
\* ----------------------------------------------------------------------
C9_RefreshInstallsSnapshot ==
  [][(RefreshEnds /\ last'.result = "ok")
       => LET got == IF coord = "econext" THEN params
                     ELSE async_fetch_all_params(reply).params
          IN /\ data' = got
             /\ \A id \in CallIds : id \notin DOMAIN got => get_param(data', id) = NoneV
             /\ coord = "econet_next" =>
                  \A i \in 1..Len(reply) :
                     reply[i].index # NoIndex =>
                        get_param_value(data', Str(reply[i].index)) = reply[i].value]_vars

C9_Witness ==
  /\ RefreshCompleted
  /\ KeysOf(data) = {"2"}
  /\ get_param(data, "1") = NoneV
  /\ get_param_value(data, "2") = DeviceValue(device, "2")

\* ======================================================================
\* Part 2: the circuit climate entity (econext CircuitClimate)
\* ======================================================================
CircuitWorkState == [OFF |-> 0, COMFORT |-> 1, ECO |-> 2, AUTO |-> 3]
WorkStates == {CircuitWorkState.OFF, CircuitWorkState.COMFORT,
               CircuitWorkState.ECO, CircuitWorkState.AUTO}

\* bit 20 of the settings bitmap: heating enable, inverted (0 = on, 1 = off)
HeatingDisableBit == 20
\* bit 17 of the settings bitmap: cooling enable (0 = off, 1 = on)
CoolingEnableBit == 17

\* how many bits of the settings bitmap, besides the two enable bits, vary
MaxOtherBits == 1
\* the other bits that vary, the neighbours of the enable bits first
OtherBit == << 18, 21, 16, 19 >>
BitPositions ==
  {HeatingDisableBit, CoolingEnableBit} \cup {OtherBit[i] : i \in 1..MaxOtherBits}
TopBit == CHOOSE b \in BitPositions : \A c \in BitPositions : c <= b

RECURSIVE SumBits(_)
SumBits(S) ==
  IF S = {} THEN 0
  ELSE LET b == CHOOSE x \in S : TRUE IN 2^b + SumBits(S \ {b})
\* the settings bitmaps the controller may report
Bitmaps == {SumBits(S) : S \in SUBSET BitPositions}

\* temperatures are in hundredths of a degree
Tolerance == 10
Hysteresis == 50
NoReading == 99900
\* a circuit as the test fixtures report it: COMFORT, heating on, pump
\* running, heat source heating
Typical == [settings |-> 0, work_state |-> CircuitWorkState.COMFORT, eco |-> 1750,
            comfort |-> 2100, setpoint |-> 2100, thermostat |-> 2000,
            pump |-> 1, hdw |-> 0, hp_mode |-> 1,
            number |-> 20, minv |-> 10, maxv |-> 30,
            minvDP |-> Absent, maxvDP |-> Absent,
            ref1 |-> Absent, ref2 |-> Absent,
            am |-> 1792, pm |-> 64512,
            operating_mode |-> 3, cooling_support |-> 1]

\* what a refresh may install for the circuit: a parameter the controller
\* does not report is Absent (get_param gives None)
Snapshots ==
  {[Typical EXCEPT !.settings = s, !.work_state = w] :
     s \in Bitmaps \cup {Absent}, w \in WorkStates \cup {Absent}}

\* HVACMode values a service call may carry; "dry" stands for the modes the
\* entity does not support
HvacModes == {"off", "heat", "cool", "auto", "dry"}
OnModes == {"heat", "cool", "auto"}
\* preset names a service call may carry; "boost" stands for the others
PresetModes == {"eco", "comfort", "schedule", "boost"}

\* (v >> b) & 1
Bit(v, b) == (v \div 2^b) % 2
\* v | (1 << b)
SetBit(v, b) == IF Bit(v, b) = 1 THEN v ELSE v + 2^b
\* v & ~(1 << b)
ClearBit(v, b) == IF Bit(v, b) = 1 THEN v - 2^b ELSE v

\* _get_work_state: the cached WorkState, 0 when the parameter is missing
get_work_state(d) == IF d.work_state = Absent THEN 0 ELSE d.work_state

\* a bitmap built from the mode alone
SettingsValue_Rebuild(settings_value, hvac_mode) ==
  (IF hvac_mode \in {"heat", "auto"} THEN 0 ELSE 2^HeatingDisableBit)
    + (IF hvac_mode \in {"cool", "auto"} THEN 2^CoolingEnableBit ELSE 0)

\* async_set_hvac_mode, the value it writes to the settings parameter
SettingsValue(settings_value, hvac_mode) ==
  LET heating_enabled == hvac_mode \in {"heat", "auto"}
      cooling_enabled == hvac_mode \in {"cool", "auto"}
      heat == IF heating_enabled THEN ClearBit(settings_value, HeatingDisableBit)
                                 ELSE SetBit(settings_value, HeatingDisableBit)
  IN IF cooling_enabled THEN SetBit(heat, CoolingEnableBit)
                        ELSE ClearBit(heat, CoolingEnableBit)

\* an OFF circuit always turned on in COMFORT
RestoreWorkState_Comfort(preset) == CircuitWorkState.COMFORT

\* async_set_hvac_mode, the WorkState that turns an OFF circuit on
RestoreWorkState(preset) ==
  CASE preset = "eco"      -> CircuitWorkState.ECO
    [] preset = "schedule" -> CircuitWorkState.AUTO
    [] OTHER               -> CircuitWorkState.COMFORT

\* the WorkState of a preset with eco and comfort exchanged
PresetWorkState_Swapped(preset_mode) ==
  CASE preset_mode = "eco"      -> CircuitWorkState.COMFORT
    [] preset_mode = "comfort"  -> CircuitWorkState.ECO
    [] preset_mode = "schedule" -> CircuitWorkState.AUTO

\* async_set_preset_mode, the WorkState of a supported preset
PresetWorkState(preset_mode) ==
  CASE preset_mode = "eco"      -> CircuitWorkState.ECO
    [] preset_mode = "comfort"  -> CircuitWorkState.COMFORT
    [] preset_mode = "schedule" -> CircuitWorkState.AUTO

\* Variant A with HEAT always written as COMFORT
ModeWorkState_Comfort(hvac_mode, preset) ==
  CASE hvac_mode = "off"  -> CircuitWorkState.OFF
    [] hvac_mode = "auto" -> CircuitWorkState.AUTO
    [] hvac_mode = "heat" -> CircuitWorkState.COMFORT

\* async_set_hvac_mode of Variant A, the WorkState it writes for a mode
ModeWorkState(hvac_mode, preset) ==
  CASE hvac_mode = "off"  -> CircuitWorkState.OFF
    [] hvac_mode = "auto" -> CircuitWorkState.AUTO
    [] hvac_mode = "heat" -> IF preset = "eco" THEN CircuitWorkState.ECO
                                               ELSE CircuitWorkState.COMFORT

Abs(x) == IF x < 0 THEN -x ELSE x

\* detection that takes the setpoint for a preset only when they are equal
detect_active_preset_Exact(d, preset) ==
  IF d.setpoint = Absent \/ d.eco = Absent \/ d.comfort = Absent THEN preset
  ELSE IF d.setpoint = d.eco THEN "eco"
  ELSE IF d.setpoint = d.comfort THEN "comfort"
  ELSE preset

\* detection that forgets the remembered preset when the setpoint matches none
detect_active_preset_Forgets(d, preset) ==
  IF d.setpoint = Absent \/ d.eco = Absent \/ d.comfort = Absent THEN preset
  ELSE IF Abs(d.setpoint - d.eco) < Tolerance THEN "eco"
  ELSE IF Abs(d.setpoint - d.comfort) < Tolerance THEN "comfort"
  ELSE "None"

\* _detect_active_preset: _last_preset once it has run
detect_active_preset(d, preset) ==
  IF d.setpoint = Absent \/ d.eco = Absent \/ d.comfort = Absent THEN preset
  ELSE IF Abs(d.setpoint - d.eco) < Tolerance THEN "eco"
  ELSE IF Abs(d.setpoint - d.comfort) < Tolerance THEN "comfort"
  ELSE preset

\* the preset_mode property: the value it returns
preset_mode(v, d) ==
  LET work_state == get_work_state(d)
  IN CASE work_state = CircuitWorkState.ECO     -> "eco"
       [] work_state = CircuitWorkState.COMFORT -> "comfort"
       [] work_state = CircuitWorkState.AUTO    -> IF v = "B" THEN "schedule" ELSE "None"
       [] OTHER                                 -> "None"

\* the preset_mode property: _last_preset once it has been read
Remembered(v, d, preset) ==
  LET work_state == get_work_state(d)
  IN CASE work_state = CircuitWorkState.ECO     -> "eco"
       [] work_state = CircuitWorkState.COMFORT -> "comfort"
       [] work_state = CircuitWorkState.AUTO    ->
            IF v = "B" THEN detect_active_preset(d, preset) ELSE preset
       [] OTHER                                 -> preset

\* the target_temperature property; NoValue is None
target_temperature(v, d, lp) ==
  LET preset == preset_mode(v, d)
      remembered == Remembered(v, d, lp)
      active_preset == IF remembered \in {"eco", "comfort"} THEN remembered ELSE "comfort"
  IN CASE preset = "schedule" -> IF active_preset = "comfort" THEN d.comfort ELSE d.eco
       [] preset = "comfort"  -> d.comfort
       [] preset = "eco"      -> d.eco
       [] OTHER               -> NoValue

\* routing by the preset remembered before the call, detection not rerun
TemperatureParam_Stale(v, d, lp) ==
  LET preset == preset_mode(v, d)
      active_preset == IF lp \in {"eco", "comfort"} THEN lp ELSE "comfort"
  IN CASE preset = "schedule" -> IF active_preset = "comfort" THEN "comfort" ELSE "eco"
       [] preset = "comfort"  -> "comfort"
       [] preset = "eco"      -> "eco"
       [] OTHER               -> ""

\* async_set_temperature: the parameter it writes, "" when it writes none
TemperatureParam(v, d, lp) ==
  LET preset == preset_mode(v, d)
      remembered == Remembered(v, d, lp)
      active_preset == IF remembered \in {"eco", "comfort"} THEN remembered ELSE "comfort"
  IN CASE preset = "schedule" -> IF active_preset = "comfort" THEN "comfort" ELSE "eco"
       [] preset = "comfort"  -> "comfort"
       [] preset = "eco"      -> "eco"
       [] OTHER               -> ""

\* the current_temperature property; NoValue is None
current_temperature(d) ==
  IF d.thermostat = Absent \/ d.thermostat = NoReading THEN NoValue ELSE d.thermostat

\* the hvac_mode property with bit 20 read as "heating enabled"
hvac_mode_of_Uninverted(v, d) ==
  LET work_state == get_work_state(d)
      heating_enabled == Bit(d.settings, HeatingDisableBit) = 1
      cooling_enabled == Bit(d.settings, CoolingEnableBit) = 1
  IN IF work_state = CircuitWorkState.OFF THEN "off"
     ELSE IF v = "A"
     THEN (IF work_state = CircuitWorkState.AUTO THEN "auto" ELSE "heat")
     ELSE IF d.settings = Absent THEN "heat"
     ELSE IF heating_enabled /\ cooling_enabled THEN "auto"
     ELSE IF heating_enabled THEN "heat"
     ELSE IF cooling_enabled THEN "cool"
     ELSE "heat"

\* the hvac_mode property
hvac_mode_of(v, d) ==
  LET work_state == get_work_state(d)
      heating_enabled == Bit(d.settings, HeatingDisableBit) = 0
      cooling_enabled == Bit(d.settings, CoolingEnableBit) = 1
  IN IF work_state = CircuitWorkState.OFF THEN "off"
     ELSE IF v = "A"
     THEN (IF work_state = CircuitWorkState.AUTO THEN "auto" ELSE "heat")
     ELSE IF d.settings = Absent THEN "heat"
     ELSE IF heating_enabled /\ cooling_enabled THEN "auto"
     ELSE IF heating_enabled THEN "heat"
     ELSE IF cooling_enabled THEN "cool"
     ELSE "heat"

\* the action read without the test for an OFF circuit
hvac_action_NoOff(v, d, lp) ==
  LET current == current_temperature(d)
      target == target_temperature(v, d, lp)
      hp_mode == IF d.hp_mode = Absent THEN 0 ELSE d.hp_mode
  IN IF v = "A"
     THEN (IF current # NoValue /\ target # NoValue /\ current < target - Hysteresis
           THEN "heating" ELSE "idle")
     ELSE IF d.pump # Absent /\ d.pump = 0 THEN "idle"
     ELSE IF d.hdw # Absent /\ d.hdw > 0 THEN "idle"
     ELSE IF hp_mode = 2 THEN "cooling"
     ELSE IF hp_mode >= 1 THEN "heating"
     ELSE "idle"

\* the hvac_action property
hvac_action(v, d, lp) ==
  LET work_state == get_work_state(d)
      current == current_temperature(d)
      target == target_temperature(v, d, lp)
      hp_mode == IF d.hp_mode = Absent THEN 0 ELSE d.hp_mode
  IN IF work_state = CircuitWorkState.OFF THEN "off"
     ELSE IF v = "A"
     THEN (IF current # NoValue /\ target # NoValue /\ current < target - Hysteresis
           THEN "heating" ELSE "idle")
     ELSE IF d.pump # Absent /\ d.pump = 0 THEN "idle"
     ELSE IF d.hdw # Absent /\ d.hdw > 0 THEN "idle"
     ELSE IF hp_mode = 2 THEN "cooling"
     ELSE IF hp_mode >= 1 THEN "heating"
     ELSE "idle"

\* the service call c ends: it returns, or an exception leaves it
Ended(c, result) == [c EXCEPT !.at = "", !.result = result]

\* the service call c calls coordinator.async_set_param(param, value) with
\* the data d: the call is logged; the coordinator raises at once when the
\* parameter is not in its data, and awaits the gateway otherwise
CoordinatorSetParam(d, c, param, value) ==
  LET w == [c EXCEPT !.log = Append(@, [param |-> param, value |-> value])]
  IN IF d[param] = Absent
     THEN pending' = NoCall /\ done' = Ended(w, "EconextApiError")
     ELSE pending' = [w EXCEPT !.at = param] /\ done' = NoCall

\* the store as the circuit specification holds it: untouched
StoreParked ==
  /\ coord = "econext"
  /\ device = [n \in DeviceNames |-> 0]
  /\ data = NoneV
  /\ index_to_name = Empty
  /\ alarms = << >>
  /\ rpc = "idle"
  /\ reply = << >>
  /\ params = Empty
  /\ calls = EmptyBag
  /\ last = NoEvent
  /\ since = NoHistory("none")

InitCircuit ==
  /\ StoreParked
  /\ cache \in Snapshots
  /\ last_preset = "None"
  /\ pending = NoCall
  /\ done = NoCall
  /\ variant = "B"
  /\ shown = NoShown
  /\ before_off = Untracked

\* the climate.set_hvac_mode service: async_set_hvac_mode up to its first await
SetHvacMode(hvac_mode) ==
  /\ pending = NoCall
  /\ LET c == [NoCall EXCEPT !.op = "set_hvac_mode", !.arg = hvac_mode]
     IN IF variant = "A"
        THEN IF hvac_mode \in {"off", "auto", "heat"}
             THEN CoordinatorSetParam(cache, c, "work_state",
                                      ModeWorkState(hvac_mode, last_preset))
             ELSE pending' = NoCall /\ done' = Ended(c, "returned")
        ELSE IF hvac_mode = "off"
        THEN CoordinatorSetParam(cache, c, "work_state", CircuitWorkState.OFF)
        ELSE IF cache.settings = Absent \/ hvac_mode \notin OnModes
        THEN pending' = NoCall /\ done' = Ended(c, "returned")
        ELSE CoordinatorSetParam(cache, [c EXCEPT !.cur = cache.settings], "settings",
                                 SettingsValue(cache.settings, hvac_mode))
  /\ shown' = NoShown
  /\ UNCHANGED << cache, last_preset, variant, before_off, svars >>

\* the climate.set_preset_mode service: async_set_preset_mode up to its await
SetPresetMode(preset) ==
  /\ pending = NoCall
  /\ LET c == [NoCall EXCEPT !.op = "set_preset_mode", !.arg = preset,
                             !.prior_preset = IF before_off.keep THEN last_preset
                                                                 ELSE ""]
         supported == IF variant = "A" THEN {"eco", "comfort"}
                                       ELSE {"eco", "comfort", "schedule"}
     IN IF preset \notin supported
        THEN pending' = NoCall /\ done' = Ended(c, "returned") /\ UNCHANGED last_preset
        ELSE /\ last_preset' = preset
             /\ CoordinatorSetParam(cache, c, "work_state", PresetWorkState(preset))
  /\ shown' = NoShown
  /\ before_off' = IF before_off.keep THEN NothingBefore ELSE before_off
  /\ UNCHANGED << cache, variant, svars >>

\* the climate.set_temperature service: async_set_temperature up to its await;
\* a call without a temperature carries NoValue
SetTemperature(temperature) ==
  /\ pending = NoCall
  /\ LET c == [NoCall EXCEPT !.op = "set_temperature",
                             !.arg = IF temperature = NoValue THEN "None" ELSE "float"]
         param == TemperatureParam(variant, cache, last_preset)
     IN IF temperature = NoValue
        THEN pending' = NoCall /\ done' = Ended(c, "returned") /\ UNCHANGED last_preset
        ELSE /\ last_preset' = Remembered(variant, cache, last_preset)
             /\ IF param = ""
                THEN pending' = NoCall /\ done' = Ended(c, "returned")
                ELSE CoordinatorSetParam(cache, c, param, temperature)
  /\ shown' = NoShown
  /\ UNCHANGED << cache, variant, before_off, svars >>

\* the coordinator's write returns True: it has patched its data when the
\* parameter is still there, and the service call resumes; async_set_hvac_mode
\* of Variant B resumes after the settings write by reading WorkState
CircuitWriteOk ==
  /\ pending # NoCall
  /\ LET w == pending.log[Len(pending.log)]
         patched == IF cache[w.param] # Absent
                    THEN [cache EXCEPT ![w.param] = w.value] ELSE cache
     IN /\ cache' = patched
        /\ IF pending.op = "set_hvac_mode" /\ pending.at = "settings"
           THEN LET current_work_state == get_work_state(patched)
                    c == [pending EXCEPT !.checked = current_work_state]
                IN IF current_work_state = CircuitWorkState.OFF
                   THEN CoordinatorSetParam(patched, c, "work_state",
                                            RestoreWorkState(last_preset))
                   ELSE pending' = NoCall /\ done' = Ended(c, "ok")
           ELSE pending' = NoCall /\ done' = Ended(pending, "ok")
  /\ shown' = NoShown
  /\ before_off' =
       IF ~before_off.keep THEN before_off
       ELSE IF pending.op = "set_hvac_mode" /\ pending.arg = "off"
       THEN [keep |-> TRUE, work_state |-> get_work_state(cache),
             remembered |-> last_preset]
       ELSE IF pending.at = "work_state" THEN NothingBefore
       ELSE before_off
  /\ UNCHANGED << last_preset, variant, svars >>

\* a write that raises, with async_set_hvac_mode catching the exception of
\* its settings write and going on to turn the circuit on
CircuitWriteFail_GoesOn(error) ==
  /\ pending # NoCall
  /\ IF pending.op = "set_hvac_mode" /\ pending.at = "settings"
        /\ get_work_state(cache) = CircuitWorkState.OFF
     THEN CoordinatorSetParam(cache, [pending EXCEPT !.checked = CircuitWorkState.OFF],
                              "work_state", RestoreWorkState(last_preset))
     ELSE pending' = NoCall /\ done' = Ended(pending, error)
  /\ shown' = NoShown
  /\ UNCHANGED << cache, last_preset, variant, before_off, svars >>

\* the coordinator's write raises: the exception leaves the service call
CircuitWriteFail(error) ==
  /\ pending # NoCall
  /\ pending' = NoCall
  /\ done' = Ended(pending, error)
  /\ shown' = NoShown
  /\ UNCHANGED << cache, last_preset, variant, before_off, svars >>

\* a refresh of the coordinator completes: its data are the controller's
CircuitRefresh(snapshot) ==
  /\ cache' = snapshot
  /\ done' = NoCall
  /\ shown' = NoShown
  /\ before_off' = IF before_off.keep THEN NothingBefore ELSE before_off
  /\ UNCHANGED << last_preset, pending, variant, svars >>

\* the hvac_modes property: of src/climate.py for Variant A, which offers by
\* the enable bits and the system operating mode (param 162: 1 summer,
\* 2 winter, 3 or anything else auto), and of econext/climate.py for
\* Variant B, which offers COOL when cooling support (param 485) is on
hvac_modes(v, d) ==
  IF v = "A"
  THEN IF d.settings = Absent THEN {"off", "auto", "heat"}
       ELSE LET heating_enabled == Bit(d.settings, HeatingDisableBit) = 0
                cooling_enabled == Bit(d.settings, CoolingEnableBit) = 1
                operating_mode == IF d.operating_mode = Absent THEN 3
                                  ELSE d.operating_mode
            IN {"off", "auto"} \cup
               (IF operating_mode = 1
                THEN (IF cooling_enabled THEN {"cool"} ELSE {})
                ELSE IF operating_mode = 2
                THEN (IF heating_enabled THEN {"heat"} ELSE {})
                ELSE (IF heating_enabled /\ cooling_enabled THEN {"heat_cool"} ELSE {})
                       \cup (IF heating_enabled THEN {"heat"} ELSE {})
                       \cup (IF cooling_enabled THEN {"cool"} ELSE {}))
  ELSE {"off", "auto", "heat"} \cup
       (IF d.cooling_support \notin {Absent, 0} THEN {"cool"} ELSE {})

\* the entity writes its state: the state properties are read, and reading
\* preset_mode updates _last_preset
ReadState ==
  /\ shown' = [NoShown EXCEPT
                 !.hvac_mode          = hvac_mode_of(variant, cache),
                 !.hvac_modes         = hvac_modes(variant, cache),
                 !.preset_mode        = preset_mode(variant, cache),
                 !.hvac_action        = hvac_action(variant, cache, last_preset),
                 !.target_temperature = target_temperature(variant, cache, last_preset)]
  /\ last_preset' = Remembered(variant, cache, last_preset)
  /\ done' = NoCall
  /\ UNCHANGED << cache, pending, variant, before_off, svars >>

NextCircuit ==
  \/ \E hvac_mode \in HvacModes : SetHvacMode(hvac_mode)
  \/ \E preset \in PresetModes : SetPresetMode(preset)
  \/ CircuitWriteOk
  \/ \E error \in WriteErrors : CircuitWriteFail(error)
  \/ \E snapshot \in Snapshots : CircuitRefresh(snapshot)
  \/ ReadState

SpecCircuit == InitCircuit /\ [][NextCircuit]_vars

SettingsWritten ==
  /\ pending.op = "set_hvac_mode" /\ pending.at = "settings"
  /\ \/ pending'.op = "set_hvac_mode" /\ pending'.at = "work_state"
     \/ done'.op = "set_hvac_mode" /\ done'.result = "ok"
     \/ done'.op = "set_hvac_mode" /\ Len(done'.log) = 2
\* the call as it stands after the step: still waiting, or ended
After == IF pending' # NoCall THEN pending' ELSE done'

\* C11: when the settings write of async_set_hvac_mode(HEAT | COOL | AUTO)
\* returns and the cached WorkState is OFF, the call goes on to write
\* WorkState: ECO, COMFORT or AUTO as the remembered preset is eco, comfort
\* or schedule, COMFORT when none is remembered; and when that write returns
\* True with WorkState still a parameter of the snapshot, the cached
\* WorkState is the written one and the mode read is not OFF.
C11_OffCircuitIsTurnedOn ==
  [][ /\ (SettingsWritten /\ cache.work_state = CircuitWorkState.OFF)
           => After.log = Append(pending.log,
                 [param |-> "work_state",
                  value |-> CASE last_preset = "eco"      -> CircuitWorkState.ECO
                              [] last_preset = "schedule" -> CircuitWorkState.AUTO
                              [] OTHER                    -> CircuitWorkState.COMFORT])
      /\ (/\ pending.op = "set_hvac_mode" /\ pending.at = "work_state"
          /\ pending.arg \in OnModes
          /\ done'.result = "ok" /\ cache'.work_state # Absent)
           => /\ cache'.work_state = pending.log[2].value
              /\ cache'.work_state # CircuitWorkState.OFF
              /\ hvac_mode_of(variant, cache') # "off"
    ]_vars
\* COOL on an OFF circuit whose remembered preset is eco: the bitmap, then
\* WorkState ECO, and the circuit reads as cooling-only
C11_Witness ==
  /\ done.op = "set_hvac_mode" /\ done.arg = "cool" /\ done.result = "ok"
  /\ done.checked = CircuitWorkState.OFF
  /\ last_preset = "eco"
  /\ done.log = << [param |-> "settings", value |-> 2^HeatingDisableBit + 2^CoolingEnableBit],
                   [param |-> "work_state", value |-> CircuitWorkState.ECO] >>
  /\ cache.work_state = CircuitWorkState.ECO
  /\ hvac_mode_of(variant, cache) = "cool"

EcoTargets == {Absent, 1750, 2100}
ComfortTargets == {Absent, 2100}
\* room setpoints: on the eco target, within the tolerance of it, a tenth of
\* a degree off it, on the comfort target, or not reported
Setpoints == {Absent, 1750, 1755, 1760, 2100}
\* temperatures a set_temperature call may carry
Temperatures == {1800, 2200}
PresetSnapshots ==
  {[Typical EXCEPT !.work_state = w, !.eco = e, !.comfort = c, !.setpoint = r] :
     w \in WorkStates, e \in EcoTargets, c \in ComfortTargets, r \in Setpoints}

InitPreset ==
  /\ StoreParked
  /\ cache \in PresetSnapshots
  /\ last_preset = "None"
  /\ pending = NoCall
  /\ done = NoCall
  /\ variant = "B"
  /\ shown = NoShown
  /\ before_off = Untracked

NextPreset ==
  \/ \E temperature \in Temperatures \cup {NoValue} : SetTemperature(temperature)
  \/ \E preset \in PresetModes : SetPresetMode(preset)
  \/ CircuitWriteOk
  \/ \E error \in WriteErrors : CircuitWriteFail(error)
  \/ \E snapshot \in PresetSnapshots : CircuitRefresh(snapshot)
  \/ ReadState

SpecPreset == InitPreset /\ [][NextPreset]_vars

\* the cached setpoint is within the tolerance of the cached target
Matches(target) ==
  /\ cache.setpoint # Absent /\ cache.eco # Absent /\ cache.comfort # Absent
  /\ cache.setpoint - target < Tolerance
  /\ target - cache.setpoint < Tolerance
\* an async_set_temperature call with a temperature runs up to its await
TemperatureCalled ==
  pending = NoCall /\ After.op = "set_temperature" /\ After.arg = "float"

\* C13: with WorkState AUTO the preset read is schedule; when the setpoint
\* is within the tolerance of the eco target the remembered preset becomes
\* eco and the target temperature read is the eco target, and when it is
\* within the tolerance of the comfort target only, the remembered preset
\* becomes comfort and the target temperature read is the comfort target.
C13_ScheduleDetectsActivePreset ==
  (shown # NoShown /\ variant = "B" /\ cache.work_state = CircuitWorkState.AUTO)
  => /\ shown.preset_mode = "schedule"
     /\ Matches(cache.eco)
          => last_preset = "eco" /\ shown.target_temperature = cache.eco
     /\ (~Matches(cache.eco) /\ Matches(cache.comfort))
          => last_preset = "comfort" /\ shown.target_temperature = cache.comfort
\* eco 17.5, comfort 21.0, setpoint 17.5: schedule, eco remembered, 17.5
C13_Witness ==
  /\ cache.work_state = CircuitWorkState.AUTO
  /\ cache.eco = 1750 /\ cache.comfort = 2100 /\ cache.setpoint = 1750
  /\ shown.preset_mode = "schedule"
  /\ last_preset = "eco"
  /\ shown.target_temperature = 1750

\* ----------------------------------------------------------------------
\* C14: with WorkState AUTO and a setpoint that matches neither target, a
\* read of the state and a set_temperature call leave the remembered preset
\* as it was; and when the remembered preset is neither eco nor comfort, the
\* target temperature read is the comfort target and set_temperature writes
\* the comfort target.
C14_NoMatchKeepsRemembered ==
  [][ (/\ variant = "B" /\ cache.work_state = CircuitWorkState.AUTO
       /\ ~Matches(cache.eco) /\ ~Matches(cache.comfort))
      => /\ shown' # NoShown
              => /\ last_preset' = last_preset
                 /\ last_preset \notin {"eco", "comfort"}
                      => shown'.target_temperature = cache.comfort
         /\ TemperatureCalled
              => /\ last_preset' = last_preset
                 /\ last_preset \notin {"eco", "comfort"}
                      => /\ Len(After.log) = 1
                         /\ After.log[1].param = "comfort"
    ]_vars
\* nothing remembered, eco 17.5, setpoint 17.6: set_temperature writes the
\* comfort target
C14_Witness ==
  /\ cache.work_state = CircuitWorkState.AUTO
  /\ cache.eco = 1750 /\ cache.comfort = 2100 /\ cache.setpoint = 1760
  /\ last_preset = "None"
  /\ pending.op = "set_temperature"
  /\ pending.log = << [param |-> "comfort", value |-> 1800] >>

\* ----------------------------------------------------------------------
\* C15: an async_set_temperature call with a temperature, on a Variant B
\* circuit whose preset is eco, comfort or schedule, calls the coordinator
\* exactly once, with that temperature: for the eco target in ECO, for the
\* comfort target in COMFORT, and in AUTO for the target that the detection
\* resolves (eco when the setpoint matches the eco target, else comfort when
\* it matches the comfort target, else the remembered preset's, comfort when
\* that is neither); no other write follows before the call ends.
C15_TemperatureWriteRouting ==
  [][ /\ (/\ TemperatureCalled /\ variant = "B"
          /\ cache.work_state \in {CircuitWorkState.ECO, CircuitWorkState.COMFORT,
                                   CircuitWorkState.AUTO})
           => /\ Len(After.log) = 1
              /\ After.log[1].value \in Temperatures
              /\ After.log[1].param =
                   (CASE cache.work_state = CircuitWorkState.ECO     -> "eco"
                      [] cache.work_state = CircuitWorkState.COMFORT -> "comfort"
                      [] OTHER ->
                           IF Matches(cache.eco) THEN "eco"
                           ELSE IF Matches(cache.comfort) THEN "comfort"
                           ELSE IF last_preset = "eco" THEN "eco" ELSE "comfort")
      /\ (pending.op = "set_temperature" /\ pending' = NoCall)
           => done'.log = pending.log
    ]_vars
\* the setpoint within the tolerance of the eco target 17.5: the call has
\* written the eco target, which is now 22.0
C15_Witness ==
  /\ cache.work_state = CircuitWorkState.AUTO
  /\ cache.eco = 2200 /\ cache.comfort = 2100 /\ cache.setpoint = 1755
  /\ last_preset = "eco"
  /\ done.op = "set_temperature" /\ done.result = "ok"
  /\ done.log = << [param |-> "eco", value |-> 2200] >>

\* ----------------------------------------------------------------------
\* The circuit entity of either variant: Variant A is the CircuitClimate of
\* src/climate.py, which has no settings bitmap and no schedule preset.
Variants == {"A", "B"}
InitModes ==
  /\ StoreParked
  /\ cache \in Snapshots
  /\ last_preset = "None"
  /\ pending = NoCall
  /\ done = NoCall
  /\ variant \in Variants
  /\ shown = NoShown
  /\ before_off = Untracked

SpecModes == InitModes /\ [][NextCircuit]_vars

\* a service call of the given kind runs up to its await or its return
Called(op) == pending = NoCall /\ After.op = op
\* the write a service call was awaiting returns True
Returned(op) == pending.op = op /\ done'.op = op /\ done'.result = "ok"

\* C16: on a Variant A circuit async_set_hvac_mode(HEAT) makes one write, of
\* WorkState: ECO when the remembered preset is eco, COMFORT when it is
\* comfort or when none is remembered; the remembered preset is the one the
\* last read of the state found (ECO or COMFORT; a read that finds OFF or
\* AUTO keeps it) unless a set_preset_mode call replaced it; and a write that
\* returns True leaves the cached WorkState at the written value.
C16_HeatRestoresPreset ==
  [][ variant = "A" =>
      /\ (Called("set_hvac_mode") /\ After.arg = "heat")
           => After.log = << [param |-> "work_state",
                              value |-> IF last_preset = "eco"
                                        THEN CircuitWorkState.ECO
                                        ELSE CircuitWorkState.COMFORT] >>
      /\ shown' # NoShown
           => last_preset' = (CASE cache.work_state = CircuitWorkState.ECO -> "eco"
                                [] cache.work_state = CircuitWorkState.COMFORT -> "comfort"
                                [] OTHER -> last_preset)
      /\ last_preset' # last_preset
           => \/ shown' # NoShown
              \/ Called("set_preset_mode") /\ After.arg = last_preset'
              \/ Called("set_temperature")
      /\ (Returned("set_hvac_mode") /\ cache.work_state # Absent)
           => cache'.work_state = pending.log[1].value
    ]_vars
\* eco remembered, the circuit OFF no more: HEAT has written ECO
C16_Witness ==
  /\ variant = "A"
  /\ last_preset = "eco"
  /\ done.op = "set_hvac_mode" /\ done.arg = "heat" /\ done.result = "ok"
  /\ done.log = << [param |-> "work_state", value |-> CircuitWorkState.ECO] >>
  /\ cache.work_state = CircuitWorkState.ECO

\* ----------------------------------------------------------------------
\* C17: async_set_hvac_mode(OFF), on either variant, calls the coordinator
\* once, for WorkState with the value OFF; when that write returns True no
\* further write has been made, no cached parameter other than WorkState has
\* changed, and the mode read and the action read are both OFF.
C17_OffWritesWorkStateOnly ==
  [][ /\ (Called("set_hvac_mode") /\ After.arg = "off")
           => After.log = << [param |-> "work_state", value |-> CircuitWorkState.OFF] >>
      /\ (Returned("set_hvac_mode") /\ pending.arg = "off")
           => /\ done'.log = pending.log
              /\ \A k \in DOMAIN cache \ {"work_state"} : cache'[k] = cache[k]
              /\ hvac_mode_of(variant, cache') = "off"
              /\ hvac_action(variant, cache', last_preset') = "off"
    ]_vars
\* a Variant B circuit with its pump running is OFF after the call
C17_Witness ==
  /\ variant = "B"
  /\ done.op = "set_hvac_mode" /\ done.arg = "off" /\ done.result = "ok"
  /\ done.log = << [param |-> "work_state", value |-> CircuitWorkState.OFF] >>
  /\ cache.work_state = CircuitWorkState.OFF
  /\ cache.pump = 1 /\ cache.hp_mode = 1
  /\ hvac_action(variant, cache, last_preset) = "off"

\* ----------------------------------------------------------------------
\* C18: async_set_preset_mode with a supported preset (eco, comfort, and on
\* Variant B schedule) calls the coordinator once, for WorkState, with ECO,
\* COMFORT or AUTO respectively, and makes no other write before it ends;
\* with any other preset it returns without a write.
C18_PresetWritesWorkStateOnly ==
  [][ /\ Called("set_preset_mode")
           => IF After.arg \in {"eco", "comfort"} \/ (variant = "B" /\ After.arg = "schedule")
              THEN After.log =
                     << [param |-> "work_state",
                         value |-> CASE After.arg = "eco"     -> CircuitWorkState.ECO
                                     [] After.arg = "comfort" -> CircuitWorkState.COMFORT
                                     [] OTHER                 -> CircuitWorkState.AUTO] >>
              ELSE After.log = << >> /\ pending' = NoCall /\ cache' = cache
      /\ (pending.op = "set_preset_mode" /\ pending' # pending)
           => /\ pending' = NoCall /\ done'.log = pending.log
              /\ \A k \in DOMAIN cache \ {"work_state"} : cache'[k] = cache[k]
    ]_vars
\* schedule on a Variant B circuit: WorkState AUTO written and cached
C18_Witness ==
  /\ variant = "B"
  /\ done.op = "set_preset_mode" /\ done.arg = "schedule" /\ done.result = "ok"
  /\ done.log = << [param |-> "work_state", value |-> CircuitWorkState.AUTO] >>
  /\ cache.work_state = CircuitWorkState.AUTO
  /\ cache.settings = 2^CoolingEnableBit

\* ----------------------------------------------------------------------
\* The Variant B circuit with the heat pump's status: the circuit's pump
\* flag, the hot-water-loading flag and the heat source's work mode vary.
\* the largest work mode the heat source reports (0 standby, 1 heating,
\* 2 cooling, and the values the integration has no name for)
MaxWorkMode == 3
Flags == {Absent, 0, 1}
WorkModes == {Absent} \cup 0..MaxWorkMode
ActionSnapshots ==
  {[Typical EXCEPT !.work_state = w, !.pump = p, !.hdw = h, !.hp_mode = m] :
     w \in WorkStates \cup {Absent}, p \in Flags, h \in Flags, m \in WorkModes}

InitAction ==
  /\ StoreParked
  /\ cache \in ActionSnapshots
  /\ last_preset = "None"
  /\ pending = NoCall
  /\ done = NoCall
  /\ variant = "B"
  /\ shown = NoShown
  /\ before_off = Untracked

NextAction ==
  \/ \E preset \in PresetModes : SetPresetMode(preset)
  \/ CircuitWriteOk
  \/ \E error \in WriteErrors : CircuitWriteFail(error)
  \/ \E snapshot \in ActionSnapshots : CircuitRefresh(snapshot)
  \/ ReadState

SpecAction == InitAction /\ [][NextAction]_vars

\* C19: the action read on a Variant B circuit is OFF when WorkState is OFF;
\* otherwise IDLE when the circuit's pump flag is 0; otherwise IDLE when the
\* hot-water-loading flag is set; otherwise COOLING for work mode 2, HEATING
\* for work mode 1, and IDLE for work mode 0, for a missing work mode and for
\* every other work mode.
C19_ReadAction ==
  (shown # NoShown /\ variant = "B")
  => shown.hvac_action =
       (IF cache.work_state \in {CircuitWorkState.OFF, Absent} THEN "off"
        ELSE IF cache.pump = 0 THEN "idle"
        ELSE IF cache.hdw # Absent /\ cache.hdw > 0 THEN "idle"
        ELSE IF cache.hp_mode = 2 THEN "cooling"
        ELSE IF cache.hp_mode = 1 THEN "heating"
        ELSE "idle")
\* pump running, no hot-water loading, work mode 3: the action read is
\* HEATING
C19_Witness ==
  /\ variant = "B"
  /\ cache.work_state = CircuitWorkState.COMFORT
  /\ cache.pump = 1 /\ cache.hdw = 0 /\ cache.hp_mode = 3
  /\ shown.hvac_action = "heating"

\* ======================================================================
\* Part 3: the bitmap switch (econet_next EconetNextSwitch)
\* ======================================================================
\* the register of a switch is the `settings` parameter of the snapshot; its
\* values are those of RegisterWidth bits
RegisterWidth == 3
Registers == 0 .. (2^RegisterWidth - 1)
\* bit_position of a switch description: a bit of the register, or NoValue
\* (None) for a switch that owns its whole parameter
BitPositionsOfSwitches == (0 .. (RegisterWidth - 1)) \cup {NoValue}
SwitchSnapshots == {[Typical EXCEPT !.settings = r] : r \in Registers \cup {Absent}}

\* a register value that holds the written bit alone
write_bit_Overwrite(current_value, bit_pos, on, invert_logic) ==
  IF on # invert_logic THEN 2^bit_pos ELSE 0

\* a switch whose invert_logic is never looked at
write_bit_IgnoresInvert(current_value, bit_pos, on, invert_logic) ==
  IF on THEN SetBit(current_value, bit_pos) ELSE ClearBit(current_value, bit_pos)

\* a switch that flips its bit whatever it is asked
write_bit_Toggle(current_value, bit_pos, on, invert_logic) ==
  IF Bit(current_value, bit_pos) = 1 THEN ClearBit(current_value, bit_pos)
                                     ELSE SetBit(current_value, bit_pos)

\* async_turn_on / async_turn_off of a bitmap switch: the new register value
write_bit(current_value, bit_pos, on, invert_logic) ==
  IF on
  THEN IF invert_logic THEN ClearBit(current_value, bit_pos)
                       ELSE SetBit(current_value, bit_pos)
  ELSE IF invert_logic THEN SetBit(current_value, bit_pos)
                       ELSE ClearBit(current_value, bit_pos)

\* int(self._get_param_value() or 0)
CurrentValue(d) == IF d.settings = Absent THEN 0 ELSE d.settings

\* async_turn_on / async_turn_off up to the await
Turn(on, bit_pos, invert_logic) ==
  /\ pending = NoCall
  /\ LET c == [NoCall EXCEPT !.op = IF on THEN "turn_on" ELSE "turn_off",
                             !.bit = bit_pos, !.invert = invert_logic,
                             !.cur = CurrentValue(cache)]
     IN IF bit_pos # NoValue
        THEN CoordinatorSetParam(cache, c, "settings",
                                 write_bit(CurrentValue(cache), bit_pos, on, invert_logic))
        ELSE CoordinatorSetParam(cache, c, "settings", IF on THEN 1 ELSE 0)
  /\ shown' = NoShown
  /\ UNCHANGED << cache, last_preset, variant, before_off, svars >>

\* the switch.turn_on service
TurnOn(bit_pos, invert_logic) == Turn(TRUE, bit_pos, invert_logic)
\* the switch.turn_off service
TurnOff(bit_pos, invert_logic) == Turn(FALSE, bit_pos, invert_logic)

\* is_on read without invert_logic
is_on_IgnoresInvert(value, bit_pos, invert_logic) ==
  IF value = Absent THEN "None"
  ELSE IF bit_pos # NoValue
  THEN (IF Bit(value, bit_pos) = 1 THEN "True" ELSE "False")
  ELSE IF value # 0 THEN "True" ELSE "False"

\* the is_on property: "None" when the parameter has no value
is_on(value, bit_pos, invert_logic) ==
  IF value = Absent THEN "None"
  ELSE IF bit_pos # NoValue
  THEN LET bit_value == Bit(value, bit_pos)
       IN IF invert_logic
          THEN (IF bit_value = 0 THEN "True" ELSE "False")
          ELSE (IF bit_value = 1 THEN "True" ELSE "False")
  ELSE IF value # 0 THEN "True" ELSE "False"

\* the switch entity writes its state: is_on is read
ReadSwitch(bit_pos, invert_logic) ==
  /\ shown' = [NoShown EXCEPT !.is_on = is_on(cache.settings, bit_pos, invert_logic),
                              !.bit = bit_pos, !.invert = invert_logic]
  /\ done' = NoCall
  /\ UNCHANGED << cache, last_preset, pending, variant, before_off, svars >>

InitSwitch ==
  /\ StoreParked
  /\ cache \in SwitchSnapshots
  /\ last_preset = "None"
  /\ pending = NoCall
  /\ done = NoCall
  /\ variant = "B"
  /\ shown = NoShown
  /\ before_off = Untracked

NextSwitch ==
  \/ \E bit_pos \in BitPositionsOfSwitches, invert_logic \in BOOLEAN : TurnOn(bit_pos, invert_logic)
  \/ \E bit_pos \in BitPositionsOfSwitches, invert_logic \in BOOLEAN : TurnOff(bit_pos, invert_logic)
  \/ CircuitWriteOk
  \/ \E error \in WriteErrors : CircuitWriteFail(error)
  \/ \E snapshot \in SwitchSnapshots : CircuitRefresh(snapshot)
  \/ \E bit_pos \in BitPositionsOfSwitches, invert_logic \in BOOLEAN : ReadSwitch(bit_pos, invert_logic)

SpecSwitch == InitSwitch /\ [][NextSwitch]_vars

\* C20: a turn_on or turn_off call of a bitmap switch whose register is in
\* the snapshot calls the coordinator once, for the register, with a value
\* that has every bit other than the one at bit_position as the cached
\* register value has it, whatever the register value and the invert setting.
C20_SwitchWriteFrame ==
  [][ (/\ Called("turn_on") \/ Called("turn_off")
       /\ After.bit # NoValue
       /\ cache.settings # Absent)
      => /\ Len(After.log) = 1
         /\ After.log[1].param = "settings"
         /\ After.log[1].value >= 0
         /\ \A b \in 0 .. RegisterWidth :
              b # After.bit
                => (After.log[1].value \div 2^b) % 2 = (cache.settings \div 2^b) % 2
    ]_vars
\* the test's case, scaled: bits 1 and 2 set, the switch of bit 0 turned on,
\* the write returned and cached
C20_Witness ==
  /\ done.op = "turn_on" /\ done.result = "ok"
  /\ done.bit = 0 /\ done.invert = FALSE
  /\ done.cur = 6
  /\ done.log = << [param |-> "settings", value |-> 7] >>
  /\ cache.settings = 7

\* ----------------------------------------------------------------------
\* the register value v with the bit at p cleared, and with it set
Cleared(v, p) == v - ((v \div 2^p) % 2) * 2^p
Raised(v, p) == v + (1 - ((v \div 2^p) % 2)) * 2^p
\* a turn_on or turn_off call of a bitmap switch, with the register in the
\* snapshot, runs up to its await
BitCalled(op) == Called(op) /\ After.bit # NoValue /\ cache.settings # Absent

\* C21 as the spec states it: whenever the cached register is what turn_on
\* of a switch makes of some value v, turn_off of that switch writes v with
\* the bit cleared, for both invert settings.
C21_OnThenOffClears ==
  [][ BitCalled("turn_off")
      => \A v \in Registers :
           cache.settings = write_bit(v, After.bit, TRUE, After.invert)
             => After.log[1].value = Cleared(v, After.bit)
    ]_vars
\* C21, amended: whenever the cached register is what turn_on of a switch
\* makes of some value v, turn_off of that switch writes v with the bit
\* cleared when the switch is not inverted, and v with the bit set when it
\* is inverted.
C21_OnThenOffIsOff ==
  [][ BitCalled("turn_off")
      => \A v \in Registers :
           cache.settings = write_bit(v, After.bit, TRUE, After.invert)
             => After.log[1].value = IF After.invert THEN Raised(v, After.bit)
                                                     ELSE Cleared(v, After.bit)
    ]_vars
\* the inverted switch of bit 1, turned on from 7 (which gave 5), is turned
\* off: 7 is written, not 5
C21_Witness ==
  /\ done.op = "turn_off" /\ done.result = "ok"
  /\ done.bit = 1 /\ done.invert = TRUE
  /\ done.cur = write_bit(7, 1, TRUE, TRUE)
  /\ done.log = << [param |-> "settings", value |-> 7] >>
  /\ cache.settings = 7

\* ----------------------------------------------------------------------
\* C22: whenever the cached register is what a turn_on (turn_off) of a
\* switch makes of some value, the same turn_on (turn_off) again writes the
\* cached register value unchanged.
C22_WriteBitIdempotent ==
  [][ \A on \in BOOLEAN :
        BitCalled(IF on THEN "turn_on" ELSE "turn_off")
        => \A v \in Registers :
             cache.settings = write_bit(v, After.bit, on, After.invert)
               => After.log[1].value = cache.settings
    ]_vars
\* the switch of bit 1, already on in 7, is turned on again: 7 is written
C22_Witness ==
  /\ done.op = "turn_on" /\ done.result = "ok"
  /\ done.bit = 1 /\ done.invert = FALSE
  /\ done.cur = 7
  /\ done.log = << [param |-> "settings", value |-> 7] >>

\* ----------------------------------------------------------------------
\* C23: a bitmap switch whose register is in the snapshot reads on exactly
\* when the bit at its position is 1, or 0 when it is inverted; and when a
\* turn_on (turn_off) write returns True with the register still in the
\* snapshot, the switch reads on (off).
C23_ReadBit ==
  [][ /\ (shown'.is_on # "" /\ shown'.bit # NoValue /\ cache.settings # Absent)
           => (shown'.is_on = "True")
                <=> ((cache.settings \div 2^(shown'.bit)) % 2
                       = (IF shown'.invert THEN 0 ELSE 1))
      /\ (Returned("turn_on") /\ pending.bit # NoValue /\ cache.settings # Absent)
           => is_on(cache'.settings, pending.bit, pending.invert) = "True"
      /\ (Returned("turn_off") /\ pending.bit # NoValue /\ cache.settings # Absent)
           => is_on(cache'.settings, pending.bit, pending.invert) = "False"
    ]_vars
\* register 5 (bits 0 and 2): the inverted switch of bit 1 reads on
C23_Witness ==
  /\ cache.settings = 5
  /\ shown.bit = 1 /\ shown.invert = TRUE
  /\ shown.is_on = "True"

\* ======================================================================
\* Part 4: the number entity (EconetNextNumber)
\* ======================================================================
\* The entity's parameter is held in the snapshot as its value (number) and
\* its allParams fields minv, maxv, minvDP, maxvDP; ref1 and ref2 are the
\* values of the parameters with ids 1 and 2, which a pointer may name.
\* Variant "B" is custom_components/econet_next/number.py, variant "A" is
\* number.py. Values are whole numbers, which float() and int() leave as
\* they are.
NumberValues == {5, 40}
StaticRanges == {<< Absent, Absent >>, << 0, 0 >>, << 10, 30 >>, << 30, 10 >>,
                 << 10, Absent >>}
MinPointers == {Absent, 1}
MaxPointers == {Absent, 2}
Ref1Values == {Absent, 15}
Ref2Values == {Absent, 25}
\* native_min_value / native_max_value of the entity descriptions: none,
\* summer_mode_off's 0..24, and summer_mode_on's 22..30
Descriptions == {[native_min_value |-> Absent, native_max_value |-> Absent],
                 [native_min_value |-> 0, native_max_value |-> 24],
                 [native_min_value |-> 22, native_max_value |-> 30]}
NumberSnapshots ==
  {[Typical EXCEPT !.number = n, !.minv = r[1], !.maxv = r[2],
                   !.minvDP = lp, !.maxvDP = hp, !.ref1 = a, !.ref2 = b] :
     n \in NumberValues, r \in StaticRanges, lp \in MinPointers,
     hp \in MaxPointers, a \in Ref1Values, b \in Ref2Values}

\* coordinator.get_param_value of the parameter a pointer names
PointedValue(d, id) == IF id = 1 THEN d.ref1 ELSE IF id = 2 THEN d.ref2 ELSE Absent
\* `description.native_min_value or 0`, `description.native_max_value or 100`
FallbackMin(description) ==
  IF description.native_min_value \in {Absent, 0} THEN 0
  ELSE description.native_min_value
FallbackMax(description) ==
  IF description.native_max_value \in {Absent, 0} THEN 100
  ELSE description.native_max_value

\* a minimum that looks at the static range before the pointer
native_min_value_StaticFirst(v, d, description) ==
  IF d.number # Absent
  THEN IF d.minv # Absent /\ d.maxv # Absent /\ d.minv < d.maxv
       THEN d.minv
       ELSE IF d.minvDP # Absent /\ PointedValue(d, d.minvDP) # Absent
       THEN PointedValue(d, d.minvDP)
       ELSE FallbackMin(description)
  ELSE FallbackMin(description)

\* the native_min_value property
native_min_value(v, d, description) ==
  IF d.number # Absent
  THEN IF d.minvDP # Absent /\ PointedValue(d, d.minvDP) # Absent
       THEN PointedValue(d, d.minvDP)
       ELSE IF v = "B"
       THEN (IF d.minv # Absent /\ d.maxv # Absent /\ d.minv < d.maxv
             THEN d.minv ELSE FallbackMin(description))
       ELSE (IF d.minv # Absent THEN d.minv ELSE FallbackMin(description))
  ELSE FallbackMin(description)

\* a maximum that takes any static maxv
native_max_value_AnyStatic(v, d, description) ==
  IF d.number # Absent
  THEN IF d.maxvDP # Absent /\ PointedValue(d, d.maxvDP) # Absent
       THEN PointedValue(d, d.maxvDP)
       ELSE IF d.maxv # Absent THEN d.maxv ELSE FallbackMax(description)
  ELSE FallbackMax(description)

\* the native_max_value property
native_max_value(v, d, description) ==
  IF d.number # Absent
  THEN IF d.maxvDP # Absent /\ PointedValue(d, d.maxvDP) # Absent
       THEN PointedValue(d, d.maxvDP)
       ELSE IF v = "B"
       THEN (IF d.minv # Absent /\ d.maxv # Absent /\ d.minv < d.maxv
             THEN d.maxv ELSE FallbackMax(description))
       ELSE (IF d.maxv # Absent THEN d.maxv ELSE FallbackMax(description))
  ELSE FallbackMax(description)

\* the native_value property
native_value(d) == d.number

\* a guard that lets every value through
BelowMinimum_Never(value, min_value) == FALSE
\* the guard of async_set_native_value that ends the call
BelowMinimum(value, min_value) == value < min_value

\* async_set_native_value up to its return or its await
SetNativeValue(description, value) ==
  /\ pending = NoCall
  /\ LET c == [NoCall EXCEPT !.op = "set_native_value", !.value = value,
                             !.fmin = description.native_min_value,
                             !.fmax = description.native_max_value]
         min_value == native_min_value(variant, cache, description)
         max_value == native_max_value(variant, cache, description)
     IN IF value = native_value(cache)
        THEN pending' = NoCall /\ done' = Ended(c, "ok")
        ELSE IF BelowMinimum(value, min_value)
        THEN pending' = NoCall /\ done' = Ended(c, "ok")
        ELSE CoordinatorSetParam(cache, c, "number", value)
  /\ shown' = NoShown
  /\ UNCHANGED << cache, last_preset, variant, before_off, svars >>

\* the number entity writes its state: the range is read
ReadNumber(description) ==
  /\ shown' = [NoShown EXCEPT
                 !.min_value = native_min_value(variant, cache, description),
                 !.max_value = native_max_value(variant, cache, description),
                 !.fmin = description.native_min_value,
                 !.fmax = description.native_max_value]
  /\ done' = NoCall
  /\ UNCHANGED << cache, last_preset, pending, variant, before_off, svars >>

InitNumber ==
  /\ StoreParked
  /\ cache \in NumberSnapshots
  /\ last_preset = "None"
  /\ pending = NoCall
  /\ done = NoCall
  /\ variant \in Variants
  /\ shown = NoShown
  /\ before_off = Untracked

NextNumber ==
  \/ \E description \in Descriptions, value \in NumberValues : SetNativeValue(description, value)
  \/ CircuitWriteOk
  \/ \E error \in WriteErrors : CircuitWriteFail(error)
  \/ \E snapshot \in NumberSnapshots : CircuitRefresh(snapshot)
  \/ \E description \in Descriptions : ReadNumber(description)

SpecNumber == InitNumber /\ [][NextNumber]_vars

\* the description of the entity whose call is After
CalledDescription == [native_min_value |-> After.fmin, native_max_value |-> After.fmax]
\* the call ended without a write: nothing sent, nothing awaited, cache kept
Rejected == pending' = NoCall /\ After.log = << >> /\ cache' = cache
\* the call awaits the coordinator's write of its value
PassedThrough ==
  /\ pending' # NoCall
  /\ After.log = << [param |-> "number", value |-> After.value] >>

\* ----------------------------------------------------------------------
\* C24 as the spec states it: a write below the resolved minimum ends
\* without a write call and with the cache unchanged, and a write above the
\* resolved maximum (and not below the minimum) reaches the coordinator's
\* write.
C24_AboveMaximumPassed ==
  [][ Called("set_native_value")
      => LET min_value == native_min_value(variant, cache, CalledDescription)
             max_value == native_max_value(variant, cache, CalledDescription)
         IN /\ After.value < min_value => Rejected
            /\ (After.value > max_value /\ After.value >= min_value)
                 => PassedThrough
    ]_vars
\* C24, amended: a write below the resolved minimum ends without a write
\* call and with the cache unchanged; a write above the resolved maximum,
\* not below the minimum, reaches the coordinator's write when its value
\* differs from the entity's current value, and ends without a write call
\* when it equals it.
C24_RangeGuard ==
  [][ Called("set_native_value")
      => LET min_value == native_min_value(variant, cache, CalledDescription)
             max_value == native_max_value(variant, cache, CalledDescription)
         IN /\ After.value < min_value => Rejected
            /\ (After.value > max_value /\ After.value >= min_value)
                 => IF After.value # cache.number THEN PassedThrough
                                                  ELSE Rejected
    ]_vars
\* 40 is written over the current 5 although the static range is 10..30
C24_Witness ==
  /\ done.op = "set_native_value" /\ done.result = "ok"
  /\ done.value = 40
  /\ done.log = << [param |-> "number", value |-> 40] >>
  /\ cache.number = 40
  /\ cache.minv = 10 /\ cache.maxv = 30
  /\ cache.minvDP = Absent /\ cache.maxvDP = Absent
\* 5 is asked for over the current 40 with the static range 10..30: no write
C24_WitnessBelow ==
  /\ done.op = "set_native_value" /\ done.result = "ok"
  /\ done.value = 5 /\ done.log = << >>
  /\ cache.number = 40
  /\ cache.minv = 10 /\ cache.maxv = 30
  /\ cache.minvDP = Absent /\ cache.maxvDP = Absent

\* ----------------------------------------------------------------------
\* a range was read from the snapshot by custom_components/econet_next/number.py
RangeShown == shown.min_value # NoValue /\ variant = "B"
ShownDescription == [native_min_value |-> shown.fmin, native_max_value |-> shown.fmax]
\* the static range of the snapshot is valid
ValidStatic == cache.minv # Absent /\ cache.maxv # Absent /\ cache.minv < cache.maxv
\* the pointer names a parameter that has a value
ValidPointer(id) == id # Absent /\ PointedValue(cache, id) # Absent

\* C25: the minimum (maximum) read is the value of the parameter minvDP
\* (maxvDP) names whenever that pointer names a parameter with a value,
\* whether or not the static range is valid; otherwise it is minv (maxv)
\* when minv < maxv; otherwise it is the description's fallback.
C25_RangePrecedence ==
  RangeShown =>
    /\ ValidPointer(cache.minvDP) => shown.min_value = PointedValue(cache, cache.minvDP)
    /\ ValidPointer(cache.maxvDP) => shown.max_value = PointedValue(cache, cache.maxvDP)
    /\ (~ValidPointer(cache.minvDP) /\ ValidStatic) => shown.min_value = cache.minv
    /\ (~ValidPointer(cache.maxvDP) /\ ValidStatic) => shown.max_value = cache.maxv
    /\ (~ValidPointer(cache.minvDP) /\ ~ValidStatic)
         => shown.min_value = FallbackMin(ShownDescription)
    /\ (~ValidPointer(cache.maxvDP) /\ ~ValidStatic)
         => shown.max_value = FallbackMax(ShownDescription)
\* static range 10..30 and both pointers valid: the range read is 15..25
C25_Witness ==
  /\ RangeShown
  /\ cache.minv = 10 /\ cache.maxv = 30
  /\ cache.minvDP = 1 /\ cache.ref1 = 15
  /\ cache.maxvDP = 2 /\ cache.ref2 = 25
  /\ shown.min_value = 15 /\ shown.max_value = 25

\* ----------------------------------------------------------------------
\* C26: with no minvDP and no maxvDP and a static range with minv >= maxv,
\* the minimum and the maximum read are the description's fallbacks.
C26_DegenerateRangeIsAbsent ==
  (/\ RangeShown
   /\ cache.minvDP = Absent /\ cache.maxvDP = Absent
   /\ cache.minv # Absent /\ cache.maxv # Absent /\ cache.minv >= cache.maxv)
    => /\ shown.min_value = FallbackMin(ShownDescription)
       /\ shown.max_value = FallbackMax(ShownDescription)
\* a number described with 0..24 whose static range is 0..0 reads 0..24
C26_Witness ==
  /\ RangeShown
  /\ cache.minvDP = Absent /\ cache.maxvDP = Absent
  /\ cache.minv = 0 /\ cache.maxv = 0
  /\ shown.fmin = 0 /\ shown.fmax = 24
  /\ shown.min_value = 0 /\ shown.max_value = 24

\* ======================================================================
\* Part 5: the schedule sensors (decode_schedule_bitfield and
\* EconextScheduleDiagnosticSensor)
\* ======================================================================
\* am and pm of the snapshot are the values of the parameters param_id_am
\* and param_id_pm name. Texts are strings, built as the f-strings and
\* ", ".join build them.
SlotCount == 24
NoActivePeriods == "No active periods"
\* the masks decoded: every combination of the first and the last
\* MaxEdgeBits slots and of slots 8..10, and the mask of all slots
MaxEdgeBits == 3
MiddleSlots == {8, 9, 10}
MaskSlots ==
  (0 .. (MaxEdgeBits - 1)) \cup MiddleSlots
    \cup ((SlotCount - MaxEdgeBits) .. (SlotCount - 1))
FullMask == 2^SlotCount - 1
Masks == {SumBits(S) : S \in SUBSET MaskSlots} \cup {FullMask}
\* the PM parameter of the day view: missing, empty, 16:00-17:30, and the
\* first and the last slot
DayMasks == {Absent, 0, 1792, 2^(SlotCount - 1) + 1}
ScheduleSnapshots ==
  {[Typical EXCEPT !.am = a, !.pm = b] : a \in Masks \cup {Absent}, b \in DayMasks}

Digit == << "0", "1", "2", "3", "4", "5", "6", "7", "8", "9" >>
\* f"{n:02d}" of a number below 100
TwoDigits(n) == Digit[(n \div 10) + 1] \o Digit[(n % 10) + 1]

\* an afternoon that starts at 06:00
start_offset_Twelve(is_am) == IF is_am THEN 0 ELSE 12
\* start_offset = 0 if is_am else 24
start_offset(is_am) == IF is_am THEN 0 ELSE 24

\* a range that ends where its last slot starts
RangeText_EndAtLastSlot(offset, start_bit, bit) ==
  TwoDigits((offset + start_bit) \div 2) \o ":"
    \o TwoDigits(((offset + start_bit) % 2) * 30) \o "-"
    \o TwoDigits((offset + bit - 1) \div 2) \o ":"
    \o TwoDigits(((offset + bit - 1) % 2) * 30)

\* the range appended when a clear bit ends a run
RangeText(offset, start_bit, bit) ==
  LET start_hour == (offset + start_bit) \div 2
      start_min == ((offset + start_bit) % 2) * 30
      end_hour == (offset + bit) \div 2
      end_min == ((offset + bit) % 2) * 30
  IN TwoDigits(start_hour) \o ":" \o TwoDigits(start_min) \o "-"
       \o TwoDigits(end_hour) \o ":" \o TwoDigits(end_min)

\* the range appended after the loop for a run that reaches the last slot
LastRangeText(offset, start_bit) ==
  LET start_hour == (offset + start_bit) \div 2
      start_min == ((offset + start_bit) % 2) * 30
      end_hour == (offset + 24) \div 2
      end_min == 0
  IN TwoDigits(start_hour) \o ":" \o TwoDigits(start_min) \o "-"
       \o TwoDigits(end_hour) \o ":" \o TwoDigits(end_min)

\* the loop `for bit in range(24)`: start_bit and ranges after it
RECURSIVE ScanBits(_, _, _, _, _)
ScanBits(value, offset, bit, start_bit, ranges) ==
  IF bit >= SlotCount THEN [start_bit |-> start_bit, ranges |-> ranges]
  ELSE LET is_set == (value \div 2^bit) % 2
       IN IF is_set = 1 /\ start_bit = NoIndex
          THEN ScanBits(value, offset, bit + 1, bit, ranges)
          ELSE IF is_set = 0 /\ start_bit # NoIndex
          THEN ScanBits(value, offset, bit + 1, NoIndex,
                        Append(ranges, RangeText(offset, start_bit, bit)))
          ELSE ScanBits(value, offset, bit + 1, start_bit, ranges)

\* ", ".join(ranges)
RECURSIVE Join(_, _)
Join(ranges, i) ==
  IF i > Len(ranges) THEN ""
  ELSE IF i = Len(ranges) THEN ranges[i]
  ELSE ranges[i] \o ", " \o Join(ranges, i + 1)

\* a decoder without the step after the loop
decode_schedule_bitfield_DropsOpenRange(value, is_am) ==
  IF value = 0 THEN NoActivePeriods
  ELSE Join(ScanBits(value, start_offset(is_am), 0, NoIndex, << >>).ranges, 1)

decode_schedule_bitfield(value, is_am) ==
  IF value = 0 THEN NoActivePeriods
  ELSE LET scanned == ScanBits(value, start_offset(is_am), 0, NoIndex, << >>)
           ranges == IF scanned.start_bit # NoIndex
                     THEN Append(scanned.ranges,
                                 LastRangeText(start_offset(is_am), scanned.start_bit))
                     ELSE scanned.ranges
       IN Join(ranges, 1)

\* a day view that puts the afternoon first
schedule_native_value_PmFirst(d) ==
  IF d.am = Absent \/ d.pm = Absent THEN "None"
  ELSE LET am_decoded == decode_schedule_bitfield(d.am, TRUE)
           pm_decoded == decode_schedule_bitfield(d.pm, FALSE)
       IN IF am_decoded = NoActivePeriods /\ pm_decoded = NoActivePeriods
          THEN NoActivePeriods
          ELSE IF am_decoded = NoActivePeriods THEN pm_decoded
          ELSE IF pm_decoded = NoActivePeriods THEN am_decoded
          ELSE pm_decoded \o ", " \o am_decoded

\* native_value of the schedule diagnostic sensor; "None" for None
schedule_native_value(d) ==
  IF d.am = Absent \/ d.pm = Absent THEN "None"
  ELSE LET am_decoded == decode_schedule_bitfield(d.am, TRUE)
           pm_decoded == decode_schedule_bitfield(d.pm, FALSE)
       IN IF am_decoded = NoActivePeriods /\ pm_decoded = NoActivePeriods
          THEN NoActivePeriods
          ELSE IF am_decoded = NoActivePeriods THEN pm_decoded
          ELSE IF pm_decoded = NoActivePeriods THEN am_decoded
          ELSE am_decoded \o ", " \o pm_decoded

\* decode_schedule_bitfield is applied to the value of the AM parameter
Decode(is_am) ==
  /\ cache.am # Absent
  /\ shown' = [NoShown EXCEPT !.text = decode_schedule_bitfield(cache.am, is_am),
                              !.slot = IF is_am THEN "am" ELSE "pm"]
  /\ done' = NoCall
  /\ UNCHANGED << cache, last_preset, pending, variant, before_off, svars >>

\* the diagnostic sensor writes its state
ReadDay ==
  /\ shown' = [NoShown EXCEPT !.text = schedule_native_value(cache), !.slot = "day"]
  /\ done' = NoCall
  /\ UNCHANGED << cache, last_preset, pending, variant, before_off, svars >>

InitSchedule ==
  /\ StoreParked
  /\ cache \in ScheduleSnapshots
  /\ last_preset = "None"
  /\ pending = NoCall
  /\ done = NoCall
  /\ variant = "B"
  /\ shown = NoShown
  /\ before_off = Untracked

NextSchedule ==
  \/ \E is_am \in BOOLEAN : Decode(is_am)
  \/ ReadDay

SpecSchedule == InitSchedule /\ [][NextSchedule]_vars

\* ----------------------------------------------------------------------
\* encode, the inverse the specification asks for: the mask of the slots the
\* ranges of a text cover. A text is the sentinel or ranges of 11 characters
\* "HH:MM-HH:MM" joined by ", ".
ParseTwoDigits(s) == CHOOSE n \in 0 .. 99 : TwoDigits(n) = s
\* the slot that starts (or ends) at the clock time "HH:MM"
ParseSlot(clock, offset) ==
  ParseTwoDigits(SubSeq(clock, 1, 2)) * 2
    + ParseTwoDigits(SubSeq(clock, 4, 5)) \div 30 - offset
RangeCount(text) == (Len(text) + 2) \div 13
RangeAt(text, k) == SubSeq(text, 13 * (k - 1) + 1, 13 * (k - 1) + 11)
RECURSIVE EncodeRanges(_, _, _)
EncodeRanges(text, k, offset) ==
  IF k > RangeCount(text) THEN 0
  ELSE LET r == RangeAt(text, k)
           first == ParseSlot(SubSeq(r, 1, 5), offset)
           end == ParseSlot(SubSeq(r, 7, 11), offset)
       IN SumBits(first .. (end - 1)) + EncodeRanges(text, k + 1, offset)
encode(text, is_pm) ==
  IF text = NoActivePeriods THEN 0
  ELSE EncodeRanges(text, 1, IF is_pm THEN SlotCount ELSE 0)

\* decode_schedule_bitfield was applied to the AM parameter's value
Decoded == shown.slot \in {"am", "pm"}

\* C27: encoding the text a mask decodes to, as AM or as PM, gives the mask
\* back.
C27_RoundTrip ==
  Decoded => encode(shown.text, shown.slot = "pm") = cache.am
\* slots 8..10 and the last slot, decoded as AM
C27_Witness ==
  /\ Decoded /\ shown.slot = "am"
  /\ cache.am = 1792 + 2^23
  /\ shown.text = "04:00-05:30, 11:30-12:00"

\* ----------------------------------------------------------------------
\* the first slots of the maximal runs of set bits among slots 0..23
RunStarts(b) ==
  {i \in 0 .. (SlotCount - 1) :
     (b \div 2^i) % 2 = 1 /\ (i = 0 \/ (b \div 2^(i - 1)) % 2 = 0)}
\* the slot after the last slot of the run that starts at i
RunEnd(b, i) ==
  CHOOSE j \in (i + 1) .. SlotCount :
    /\ \A k \in i .. (j - 1) : (b \div 2^k) % 2 = 1
    /\ (j = SlotCount \/ (b \div 2^j) % 2 = 0)
\* the clock time at which a half-hour of the day starts
Clock(halfhour) ==
  TwoDigits(halfhour \div 2) \o ":" \o (IF halfhour % 2 = 0 THEN "00" ELSE "30")
\* one range per run of S, in ascending order
RECURSIVE RunsText(_, _, _)
RunsText(b, offset, S) ==
  IF S = {} THEN ""
  ELSE LET i == CHOOSE x \in S : \A y \in S : x <= y
           r == Clock(offset + i) \o "-" \o Clock(offset + RunEnd(b, i))
       IN IF S = {i} THEN r ELSE r \o ", " \o RunsText(b, offset, S \ {i})

\* C28: the text of a mask is the sentinel for 0 and otherwise one range per
\* maximal run of set bits among slots 0..23, in ascending order, from the
\* start of the run's first slot to the end of its last slot; the mask of
\* all 24 slots gives the single range of the whole half day.
C28_OneRangePerRun ==
  Decoded =>
    LET offset == IF shown.slot = "pm" THEN SlotCount ELSE 0
    IN /\ cache.am = 0 => shown.text = NoActivePeriods
       /\ cache.am # 0
            => shown.text = RunsText(cache.am, offset, RunStarts(cache.am))
       /\ cache.am = FullMask
            => shown.text = (IF shown.slot = "pm" THEN "12:00-24:00"
                                                  ELSE "00:00-12:00")
\* three runs: slots 0..1, 8..10 and 22..23, decoded as AM
C28_Witness ==
  /\ Decoded /\ shown.slot = "am"
  /\ cache.am = 3 + 1792 + 2^22 + 2^23
  /\ shown.text = "00:00-01:00, 04:00-05:30, 11:00-12:00"

\* ----------------------------------------------------------------------
\* a text of ranges with 12 hours added to every clock time
ShiftRange(r) ==
  TwoDigits(ParseTwoDigits(SubSeq(r, 1, 2)) + 12) \o SubSeq(r, 3, 6)
    \o TwoDigits(ParseTwoDigits(SubSeq(r, 7, 8)) + 12) \o SubSeq(r, 9, 11)
RECURSIVE ShiftFrom(_, _)
ShiftFrom(text, k) ==
  IF k > RangeCount(text) THEN ""
  ELSE IF k = RangeCount(text) THEN ShiftRange(RangeAt(text, k))
  ELSE ShiftRange(RangeAt(text, k)) \o ", " \o ShiftFrom(text, k + 1)

\* C29: a mask other than 0 decoded as PM gives the text it gives decoded as
\* AM with 12 hours added to every clock time.
C29_PmIsAmPlusTwelve ==
  (Decoded /\ shown.slot = "pm" /\ cache.am # 0)
    => shown.text = ShiftFrom(decode_schedule_bitfield(cache.am, TRUE), 1)
\* 1792 as PM: 16:00-17:30
C29_Witness ==
  /\ Decoded /\ shown.slot = "pm"
  /\ cache.am = 1792
  /\ decode_schedule_bitfield(cache.am, TRUE) = "04:00-05:30"
  /\ shown.text = "16:00-17:30"

\* ----------------------------------------------------------------------
\* C30: with both parameters in the snapshot, the day view is the sentinel,
\* once, when both masks are 0; the text of the other mask when exactly one
\* is 0; and the AM text, ", ", the PM text when neither is 0.
C30_DayView ==
  (shown.slot = "day" /\ cache.am # Absent /\ cache.pm # Absent) =>
    LET am_text == decode_schedule_bitfield(cache.am, TRUE)
        pm_text == decode_schedule_bitfield(cache.pm, FALSE)
    IN /\ (cache.am = 0 /\ cache.pm = 0) => shown.text = NoActivePeriods
       /\ (cache.am = 0 /\ cache.pm # 0) => shown.text = pm_text
       /\ (cache.am # 0 /\ cache.pm = 0) => shown.text = am_text
       /\ (cache.am # 0 /\ cache.pm # 0)
            => shown.text = am_text \o ", " \o pm_text
\* 1792 in the morning and in the afternoon
C30_Witness ==
  /\ shown.slot = "day"
  /\ cache.am = 1792 /\ cache.pm = 1792
  /\ shown.text = "04:00-05:30, 16:00-17:30"

\* ======================================================================
\* Part 6: service calls that overlap
\* ======================================================================
\* Home Assistant runs service calls as tasks of one event loop: a call runs
\* up to its await, and other calls run before its write returns. Here
\* pending is the sequence of the calls that await the coordinator's write,
\* and done the sequence of the calls that ended, in the order they ended.
MaxInFlight == 2
\* the i-th element taken out of a sequence
Without(seq, i) == SubSeq(seq, 1, i - 1) \o SubSeq(seq, i + 1, Len(seq))

\* async_turn_on / async_turn_off of a bitmap switch up to the await, while
\* other calls may be waiting
RaceTurn(on, bit_pos, invert_logic) ==
  /\ Len(pending) + Len(done) < MaxInFlight
  /\ LET current_value == CurrentValue(cache)
         c == [NoCall EXCEPT
                 !.op = IF on THEN "turn_on" ELSE "turn_off",
                 !.bit = bit_pos, !.invert = invert_logic,
                 !.cur = current_value, !.at = "settings",
                 !.log = << [param |-> "settings",
                             value |-> write_bit(current_value, bit_pos, on,
                                                  invert_logic)] >>]
     IN pending' = Append(pending, c)
  /\ UNCHANGED << cache, last_preset, done, variant, shown, before_off, svars >>

\* the write of one waiting call returns True: the coordinator patches the
\* cache with the value that call computed
RaceWriteOk(i) ==
  /\ i \in 1 .. Len(pending)
  /\ LET w == pending[i].log[1]
     IN cache' = IF cache[w.param] # Absent
                 THEN [cache EXCEPT ![w.param] = w.value] ELSE cache
  /\ pending' = Without(pending, i)
  /\ done' = Append(done, Ended(pending[i], "ok"))
  /\ UNCHANGED << last_preset, variant, shown, before_off, svars >>

\* the write of one waiting call raises
RaceWriteFail(i, error) ==
  /\ i \in 1 .. Len(pending)
  /\ pending' = Without(pending, i)
  /\ done' = Append(done, Ended(pending[i], error))
  /\ UNCHANGED << cache, last_preset, variant, shown, before_off, svars >>

InitRace ==
  /\ StoreParked
  /\ cache \in {d \in SwitchSnapshots : d.settings # Absent}
  /\ last_preset = "None"
  /\ pending = << >>
  /\ done = << >>
  /\ variant = "B"
  /\ shown = NoShown
  /\ before_off = Untracked

NextRace ==
  \/ \E on \in BOOLEAN, bit_pos \in 0 .. (RegisterWidth - 1), invert_logic \in BOOLEAN :
       RaceTurn(on, bit_pos, invert_logic)
  \/ \E i \in 1 .. MaxInFlight : RaceWriteOk(i)
  \/ \E i \in 1 .. MaxInFlight, error \in WriteErrors : RaceWriteFail(i, error)

SpecRace == InitRace /\ [][NextRace]_vars

\* the call's switch reads as the call asked
Applied(c, d) ==
  is_on(d.settings, c.bit, c.invert) = (IF c.op = "turn_on" THEN "True" ELSE "False")
\* the calls that returned True
Succeeded == {i \in 1 .. Len(done) : done[i].result = "ok"}

\* ----------------------------------------------------------------------
\* C31: when every call has ended, the cached register shows the bit change
\* of every switch call that returned True and whose bit no other such call
\* wrote, whether or not the calls overlapped.
C31_NoLostUpdate ==
  pending = << >>
    => \A i \in Succeeded :
         (\A j \in Succeeded \ {i} : done[j].bit # done[i].bit)
           => Applied(done[i], cache)
\* two calls on different bits both returned True, and the register does not
\* show the first one's change
C31_Witness ==
  /\ pending = << >>
  /\ Len(done) = 2
  /\ done[1].result = "ok" /\ done[2].result = "ok"
  /\ done[1].bit # done[2].bit
  /\ done[1].cur = done[2].cur
  /\ ~Applied(done[1], cache)
  /\ Applied(done[2], cache)

\* ======================================================================
\* The store again: a refresh that ends while a write waits
\* ======================================================================
\* C32 as the spec states it: whenever async_set_param returns True,
\* whatever refresh ended while it was waiting, the read that follows at
\* once gives the value written: the call never returns True without its
\* patch in the live snapshot.
C32_SuccessMeansPatched ==
  [][(SetReturns /\ last'.result = "True")
       => get_param_value(data', last'.id) = last'.value]_vars
\* C32, amended: whenever async_set_param returns True, whatever refresh
\* ended while it was waiting, the snapshot that is live at that moment holds
\* the value written for the id if it has the id, and is left as it is, the
\* call still returning True, if it does not have the id.
C32_PatchesLiveSnapshot ==
  [][(SetReturns /\ last'.result = "True")
       => IF last'.id \in KeysOf(data)
          THEN get_param_value(data', last'.id) = last'.value
          ELSE data' = data]_vars
\* an EconextCoordinator write, whose id was in the snapshot when it was
\* called, returned True and the live snapshot does not have the id
C32_Witness ==
  /\ coord = "econext"
  /\ last.op = "set" /\ last.result = "True"
  /\ data # NoneV
  /\ last.id \notin KeysOf(data)

\* ======================================================================
\* The circuit again: turned off and on
\* ======================================================================
\* A Variant B circuit whose calls are set_hvac_mode and set_preset_mode and
\* whose state is read at any moment; no refresh changes the snapshot, so
\* the WorkState found by set_hvac_mode(OFF) is the one the service calls
\* and the controller left.
InitRestore ==
  /\ StoreParked
  /\ cache \in PresetSnapshots
  /\ last_preset = "None"
  /\ pending = NoCall
  /\ done = NoCall
  /\ variant = "B"
  /\ shown = NoShown
  /\ before_off = NothingBefore

NextRestore ==
  \/ \E hvac_mode \in HvacModes : SetHvacMode(hvac_mode)
  \/ \E preset \in PresetModes : SetPresetMode(preset)
  \/ CircuitWriteOk
  \/ \E error \in WriteErrors : CircuitWriteFail(error)
  \/ ReadState

SpecRestore == InitRestore /\ [][NextRestore]_vars

\* C33: on a Variant B circuit that set_hvac_mode(OFF) found in ECO, COMFORT
\* or AUTO and turned off, whatever reads of the state came before or after,
\* the next set_hvac_mode of an on-mode writes to WorkState the value that
\* set_hvac_mode(OFF) found.
C33_OffThenOnRestores ==
  [][(/\ SettingsWritten
      /\ cache.work_state = CircuitWorkState.OFF
      /\ before_off.work_state \in {CircuitWorkState.ECO, CircuitWorkState.COMFORT,
                                    CircuitWorkState.AUTO})
       => /\ Len(After.log) = 2
          /\ After.log[2] = [param |-> "work_state", value |-> before_off.work_state]]_vars
\* a circuit in AUTO whose setpoint is the eco target was read, turned off,
\* and is being turned on: the WorkState written is ECO
C33_Witness ==
  /\ pending.op = "set_hvac_mode" /\ pending.arg \in OnModes
  /\ pending.at = "work_state"
  /\ before_off.work_state = CircuitWorkState.AUTO
  /\ before_off.remembered = "eco"
  /\ pending.log[2] = [param |-> "work_state", value |-> CircuitWorkState.ECO]

\* ======================================================================
\* The circuit again: the target temperature written and read back
\* ======================================================================
\* A Variant B circuit whose calls are set_temperature and set_preset_mode
\* and whose state is read at any moment; no refresh completes, so what a
\* read finds is what the snapshot held and the writes patched.
NextTarget ==
  \/ \E temperature \in Temperatures \cup {NoValue} : SetTemperature(temperature)
  \/ \E preset \in PresetModes : SetPresetMode(preset)
  \/ CircuitWriteOk
  \/ \E error \in WriteErrors : CircuitWriteFail(error)
  \/ ReadState

SpecTarget == InitPreset /\ [][NextTarget]_vars

\* the write of an async_set_temperature call has returned True and nothing
\* was called since; the state is now read
ReadAfterTemperatureWrite ==
  /\ variant = "B"
  /\ done.op = "set_temperature" /\ done.result = "ok"
  /\ shown' # NoShown
\* the call that has ended was made in AUTO with the setpoint within the
\* tolerance of both targets: it wrote the eco target, which in AUTO is the
\* detection's choice whenever the eco target matches, and the comfort
\* target, which it left alone, matches the setpoint
BothTargetsMatched ==
  /\ cache.work_state = CircuitWorkState.AUTO
  /\ done.log[1].param = "eco"
  /\ Matches(cache.comfort)

C35_SettingsThenWorkState ==
  [][ /\ (/\ Called("set_hvac_mode") /\ variant = "B" /\ After.arg \in OnModes
          /\ cache.work_state = CircuitWorkState.OFF /\ After.log # << >>)
           => /\ Len(After.log) = 1
              /\ After.log[1].param = "settings"
      /\ (After.op = "set_hvac_mode" /\ variant = "B" /\ After.arg \in OnModes)
           => \A i \in 1..Len(After.log) :
                After.log[i].param = "work_state"
                  => i = 2 /\ After.log[1].param = "settings"
      /\ (/\ pending.op = "set_hvac_mode" /\ variant = "B"
          /\ pending.at = "settings" /\ After.at = "work_state")
           => /\ cache.work_state = CircuitWorkState.OFF
              /\ cache.settings # Absent => cache'.settings = pending.log[1].value
      /\ (/\ pending.op = "set_hvac_mode" /\ variant = "B" /\ pending.arg \in OnModes
          /\ pending.at = "settings" /\ cache.work_state = CircuitWorkState.OFF
          /\ pending' = NoCall /\ done'.result \in WriteErrors)
           => /\ done'.log = pending.log
              /\ Len(done'.log) = 1 /\ done'.log[1].param = "settings"
              /\ cache' = cache
              /\ hvac_mode_of(variant, cache') = "off"
    ]_vars
\* HEAT on an OFF circuit: the settings write raised a connection error and
\* the call ended with that write alone, the circuit OFF
C35_Witness ==
  /\ variant = "B"
  /\ done.op = "set_hvac_mode" /\ done.arg = "heat"
  /\ done.result = "EconextConnectionError"
  /\ Len(done.log) = 1 /\ done.log[1].param = "settings"
  /\ cache.work_state = CircuitWorkState.OFF

\* ======================================================================
\* The circuit again: a preset whose write fails
\* ======================================================================
\* C36: when the WorkState write of an async_set_preset_mode call raises,
\* at once or after the await, the remembered preset is the one that was
\* remembered when the call was made.
C36_FailedPresetKeepsRemembered ==
  [][(/\ done'.op = "set_preset_mode"
      /\ done'.result \in WriteErrors)
       => last_preset' = done'.prior_preset]_vars
\* set_preset_mode(eco) on a circuit in COMFORT, remembered as comfort: the
\* write raised a connection error, WorkState is COMFORT and the remembered
\* preset is eco
C36_Witness ==
  /\ done.op = "set_preset_mode" /\ done.arg = "eco"
  /\ done.result = "EconextConnectionError"
  /\ done.log = << [param |-> "work_state", value |-> CircuitWorkState.ECO] >>
  /\ done.prior_preset = "comfort"
  /\ cache.work_state = CircuitWorkState.COMFORT
  /\ last_preset = "eco"

\* ======================================================================
\* The number again: a bound that follows the parameter it points to
\* ======================================================================
\* values written to a referenced parameter, none of them a value a snapshot
\* of the controller holds for it
ReferenceValues == {12, 28}
\* the parameters the pointers of the number may name
References == {"ref1", "ref2"}
\* the id of a referenced parameter
ReferenceId(ref) == IF ref = "ref1" THEN 1 ELSE 2

\* async_set_native_value of the number entity of a referenced parameter, up
\* to its return or its await: EconetNextCoordinator.async_set_param posts
\* whether or not the parameter is in its data; the entity's own range, which
\* the model does not hold, is taken to admit the value
SetReferencedValue(ref, value) ==
  /\ pending = NoCall
  /\ LET c == [NoCall EXCEPT !.op = "set_native_value", !.value = value]
     IN IF value = cache[ref]
        THEN pending' = NoCall /\ done' = Ended(c, "ok")
        ELSE /\ pending' = [c EXCEPT !.at = ref,
                                     !.log = << [param |-> ref, value |-> value] >>]
             /\ done' = NoCall
  /\ shown' = NoShown
  /\ UNCHANGED << cache, last_preset, variant, before_off, svars >>

NextPointer ==
  \/ \E ref \in References, value \in ReferenceValues : SetReferencedValue(ref, value)
  \/ CircuitWriteOk
  \/ \E error \in WriteErrors : CircuitWriteFail(error)
  \/ \E snapshot \in NumberSnapshots : CircuitRefresh(snapshot)
  \/ \E description \in Descriptions : ReadNumber(description)

SpecPointer == InitNumber /\ [][NextPointer]_vars

\* the write of a referenced parameter has returned True, nothing was called
\* and no refresh has completed since, and the range of the number is read
ReadAfterReferenceWrite(ref) ==
  /\ done.op = "set_native_value" /\ done.result = "ok"
  /\ done.log # << >> /\ done.log[1].param = ref
  /\ shown' # NoShown
  /\ cache.number # Absent
  /\ cache[ref] # Absent

\* C37: when the write of a parameter that the number's minvDP (maxvDP)
\* names has returned True and the live snapshot holds that parameter, the
\* minimum (maximum) read next, no refresh having completed in between, is
\* the value written.
C37_BoundFollowsReference ==
  [][ /\ (ReadAfterReferenceWrite("ref1") /\ cache.minvDP = ReferenceId("ref1"))
           => shown'.min_value = done.log[1].value
      /\ (ReadAfterReferenceWrite("ref2") /\ cache.maxvDP = ReferenceId("ref2"))
           => shown'.max_value = done.log[1].value
    ]_vars
\* a number with a valid static range 10..30 and maxvDP naming a parameter
\* that held 25: 28 was written to it and the maximum read is 28
C37_Witness ==
  /\ cache.number # Absent
  /\ cache.minv = 10 /\ cache.maxv = 30
  /\ cache.maxvDP = ReferenceId("ref2")
  /\ cache.ref2 = 28
  /\ shown.max_value = 28

\* ======================================================================
\* The circuit again: the mode it reports and the modes it offers
\* ======================================================================
\* the system operating mode: not reported, summer, winter, auto, unknown
OperatingModes == {Absent, 1, 2, 3, 0}
\* the cooling support toggle: not reported, off, on
CoolingSupports == {Absent, 0, 1}
\* the bitmaps of the two enable bits, or no bitmap
EnableBitmaps ==
  {Absent, 0, 2^HeatingDisableBit, 2^CoolingEnableBit,
   2^HeatingDisableBit + 2^CoolingEnableBit}
OfferSnapshots ==
  {[Typical EXCEPT !.work_state = w, !.settings = s,
                   !.operating_mode = o, !.cooling_support = c] :
     w \in WorkStates \cup {Absent}, s \in EnableBitmaps,
     o \in OperatingModes, c \in CoolingSupports}

InitOffer ==
  /\ StoreParked
  /\ cache \in OfferSnapshots
  /\ last_preset = "None"
  /\ pending = NoCall
  /\ done = NoCall
  /\ variant \in Variants
  /\ shown = NoShown
  /\ before_off = Untracked

NextOffer ==
  \/ \E hvac_mode \in HvacModes : SetHvacMode(hvac_mode)
  \/ CircuitWriteOk
  \/ \E error \in WriteErrors : CircuitWriteFail(error)
  \/ ReadState

SpecOffer == InitOffer /\ [][NextOffer]_vars

\* C38: in both variants, whatever WorkState, the settings bitmap, the
\* system operating mode and cooling support are, the mode hvac_mode returns
\* is one of those hvac_modes returns.
C38_ModeIsOffered ==
  shown # NoShown => shown.hvac_mode \in shown.hvac_modes
\* a Variant B circuit in COMFORT with heating disabled and cooling enabled,
\* cooling support off: the mode read is COOL and COOL is not offered
C38_Witness ==
  /\ variant = "B"
  /\ cache.work_state = CircuitWorkState.COMFORT
  /\ cache.settings = 2^HeatingDisableBit + 2^CoolingEnableBit
  /\ cache.cooling_support = 0
  /\ shown.hvac_mode = "cool"
  /\ "cool" \notin shown.hvac_modes

\* ======================================================================
\* The schedule again: registers with bits above the 24 slots
\* ======================================================================
\* a schedule parameter is a uint32: bits above the slots, the first one and
\* the highest below the sign bit of a 32-bit integer
TopScheduleBit == 30
HighBits == {SumBits(S) : S \in SUBSET {SlotCount, TopScheduleBit}}
\* registers with and without bits above the slots
WideMasks ==
  Masks \cup {low + high : low \in {0, 1, 1792, FullMask}, high \in HighBits}
WideSnapshots ==
  {[Typical EXCEPT !.am = a, !.pm = b] :
     a \in WideMasks, b \in DayMasks \cup {2^SlotCount}}

InitWide ==
  /\ StoreParked
  /\ cache \in WideSnapshots
  /\ last_preset = "None"
  /\ pending = NoCall
  /\ done = NoCall
  /\ variant = "B"
  /\ shown = NoShown
  /\ before_off = Untracked

SpecWide == InitWide /\ [][NextSchedule]_vars

\* C39: whatever uint32 value the parameter holds, bits 24 and above
\* included, the text decode_schedule_bitfield returns is the sentinel or at
\* least one range "HH:MM-HH:MM", is the sentinel exactly when bits 0..23
\* are all zero, and is never the empty string.
C39_SentinelOrRanges ==
  shown.slot \in {"am", "pm"}
  => /\ shown.text # ""
     /\ shown.text = NoActivePeriods \/ Len(shown.text) >= 11
     /\ shown.text = NoActivePeriods <=> cache.am % 2^SlotCount = 0
\* the register with bit 24 alone: the text decoded is the empty string
C39_Witness ==
  /\ cache.am = 2^SlotCount
  /\ shown.slot = "am"
  /\ shown.text = ""

====
